---- MODULE Spec2Model ----
(***************************************************************************)
(* Verification model of the XPU indexed min/max reduction                 *)
(* (csrc/gpu/aten/operators/ReduceDimIndex.cpp) and of the softmax kernel  *)
(* family with its host entry points (SoftMax.cpp, src/unnamed/part_000).  *)
(*                                                                         *)
(* Tensors are records of sizes, strides and a flat storage sequence.      *)
(* Floating point values are abstracted by small integers with explicit    *)
(* sentinels for NaN, -infinity and numeric_limits::lowest(); every        *)
(* comparison and arithmetic operator that touches a sentinel is written   *)
(* out the way IEEE arithmetic evaluates it.                               *)
(***************************************************************************)
EXTENDS Integers, Sequences, FiniteSets, TLC

\* ------------------------------------------------------------------------
\* Bounds of the model
\* ------------------------------------------------------------------------
\* largest finite element value of a min/max input; values are 0..MaxVal
MaxVal == 2
\* largest tensor rank of a min/max input
MaxRank == 2
\* largest extent of one dimension of a min/max input
MaxDim == 3
\* largest number of elements of a min/max input
MaxNumel == 3
\* largest extent of one dimension of a softmax operand
SmMaxDim == 2
\* largest number of elements of a softmax operand
SmMaxNumel == 4

\* ------------------------------------------------------------------------
\* Generic helpers
\* ------------------------------------------------------------------------
RECURSIVE Prod(_, _, _)
\* product of s[lo..hi] (1 for an empty range)
Prod(s, lo, hi) == IF lo > hi THEN 1 ELSE s[lo] * Prod(s, lo + 1, hi)

Numel(sizes) == Prod(sizes, 1, Len(sizes))

MinOfSet(S) == CHOOSE x \in S : \A y \in S : x <= y

MaxOfSet(S) == CHOOSE x \in S : \A y \in S : x >= y

\* ------------------------------------------------------------------------
\* Element values of the min/max reduction
\* ------------------------------------------------------------------------
\* the NaN sentinel; Numerics<scalar_t>::isnan is IsNaN
NaN == 0 - 1

IsNaN(a) == a = NaN

\* Numerics<scalar_t>::upper_bound(): the largest representable value
upper_bound == MaxVal

\* Numerics<scalar_t>::lower_bound(): the smallest representable value
lower_bound == 0

Values == (0 .. MaxVal) \cup {NaN}

\* C++ comparisons: every comparison with a NaN operand is false
CppEq(a, b) == ~IsNaN(a) /\ ~IsNaN(b) /\ a = b

CppLt(a, b) == ~IsNaN(a) /\ ~IsNaN(b) /\ a < b

CppGt(a, b) == ~IsNaN(a) /\ ~IsNaN(b) /\ a > b

\* ------------------------------------------------------------------------
\* ReduceDimIndex.cpp: comparators and MinMaxReductionOps
\* ------------------------------------------------------------------------
LessOrNan_TieHigh(a, b, idx_a, idx_b) ==
    IF IsNaN(a)
    THEN (IF IsNaN(b) THEN idx_a > idx_b ELSE TRUE)
    ELSE (IF CppEq(a, b) THEN idx_a > idx_b ELSE CppLt(a, b))

LessOrNan(a, b, idx_a, idx_b) ==
    IF IsNaN(a)
    THEN (IF IsNaN(b) THEN idx_a < idx_b ELSE TRUE)
    ELSE (IF CppEq(a, b) THEN idx_a < idx_b ELSE CppLt(a, b))

GreaterOrNan(a, b, idx_a, idx_b) ==
    IF IsNaN(a)
    THEN (IF IsNaN(b) THEN idx_a < idx_b ELSE TRUE)
    ELSE (IF CppEq(a, b) THEN idx_a < idx_b ELSE CppGt(a, b))

\* comp_t{}(...) for MinOps (LessOrNan) and MaxOps (GreaterOrNan)
comp_t(o, a, b, idx_a, idx_b) ==
    IF o = "min" THEN LessOrNan(a, b, idx_a, idx_b)
    ELSE GreaterOrNan(a, b, idx_a, idx_b)

\* MinMaxReductionOps::reduce
reduce(o, arg, val, idx) ==
    LET ret == [first |-> val, second |-> idx]
    IN IF comp_t(o, arg.first, val, arg.second, idx) THEN arg ELSE ret

\* MinMaxReductionOps::combine
combine(o, a, b) ==
    IF comp_t(o, a.first, b.first, a.second, b.second) THEN a ELSE b

\* a translate_idx that leaves the index chunk-relative
translate_idx_NoShift(a, base_idx) == a

\* MinMaxReductionOps::translate_idx
translate_idx(a, base_idx) == [first |-> a.first, second |-> a.second + base_idx]

\* the two identity accumulators exchanged
ident_Swapped(o) ==
    IF o = "min" THEN [first |-> lower_bound, second |-> 0]
    ELSE [first |-> upper_bound, second |-> 0]

\* the identity accumulator handed to dpcpp_reduce_kernel
ident(o) ==
    IF o = "min" THEN [first |-> upper_bound, second |-> 0]
    ELSE [first |-> lower_bound, second |-> 0]

\* ------------------------------------------------------------------------
\* Tensor geometry of a reduction along dim (dim is 1-based in the model:
\* source dim d is model dim d + 1)
\* ------------------------------------------------------------------------
\* maybe_wrap_dim(dim, self.dim()): negative dims count from the end; a
\* 0-dim tensor is treated as 1-dim for wrapping
maybe_wrap_dim(d, rank) == IF d < 0 THEN d + (IF rank = 0 THEN 1 ELSE rank) ELSE d

\* the dims accepted by maybe_wrap_dim for a tensor of that rank
ValidDims(rank) == IF rank = 0 THEN {0 - 1, 0} ELSE (0 - rank) .. (rank - 1)

DimSize(sizes, d) == IF Len(sizes) = 0 THEN 1 ELSE sizes[d + 1]

InnerSize(sizes, d) == Prod(sizes, d + 2, Len(sizes))

OuterSize(sizes, d) == Prod(sizes, 1, d)

\* sizes of the reduced result
ReducedSizes(sizes, d, keep) ==
    IF Len(sizes) = 0 THEN << >>
    ELSE IF keep THEN [k \in 1 .. Len(sizes) |-> IF k = d + 1 THEN 1 ELSE sizes[k]]
    ELSE [k \in 1 .. (Len(sizes) - 1) |-> IF k <= d THEN sizes[k] ELSE sizes[k + 1]]

\* number of output positions (slices) of the reduction
NumSlices(sizes, d) == OuterSize(sizes, d) * InnerSize(sizes, d)

\* 1-based storage offset of element i (0-based) of slice p (0-based) of a
\* contiguous tensor
SliceOffset(sizes, d, p, i) ==
    LET inner == InnerSize(sizes, d)
    IN (p \div inner) * DimSize(sizes, d) * inner + i * inner + (p % inner) + 1

Shapes ==
    {s \in UNION {[1 .. r -> 0 .. MaxDim] : r \in 0 .. MaxRank} : Numel(s) <= MaxNumel}

\* ------------------------------------------------------------------------
\* Softmax: tensors
\* ------------------------------------------------------------------------
\* strides of a contiguous tensor of these sizes
RECURSIVE StrideProd(_, _)
\* product of max(size, 1) over the dimensions after k
StrideProd(sizes, k) ==
    IF k >= Len(sizes) THEN 1
    ELSE (IF sizes[k + 1] > 1 THEN sizes[k + 1] ELSE 1) * StrideProd(sizes, k + 1)

ContigStrides(sizes) == [k \in 1 .. Len(sizes) |-> StrideProd(sizes, k)]

\* strides of the row-sliced view x[::2] of a contiguous tensor
RowSkipStrides(sizes) ==
    [k \in 1 .. Len(sizes) |->
        IF k = 1 THEN 2 * StrideProd(sizes, 1) ELSE StrideProd(sizes, k)]

\* Tensor::is_contiguous(): the strides of every dimension of extent /= 1
\* are the row-major ones
is_contiguous(t) ==
    LET expected == ContigStrides(t.sizes)
    IN \/ Numel(t.sizes) = 0
       \/ \A k \in 1 .. Len(t.sizes) :
             t.sizes[k] = 1 \/ t.strides[k] = expected[k]

RECURSIVE OffsetOf(_, _, _, _)
\* storage offset (0-based) of the element whose row-major position is lin:
\* the offset calculator of a TensorIterator whose output is contiguous
OffsetOf(lin, sizes, strides, k) ==
    IF k = 0 THEN 0
    ELSE (lin % sizes[k]) * strides[k] + OffsetOf(lin \div sizes[k], sizes, strides, k - 1)

\* number of storage elements a view of these sizes and strides spans
StorageLen(sizes, strides) ==
    IF Numel(sizes) = 0 THEN 0
    ELSE OffsetOf(Numel(sizes) - 1, sizes, strides, Len(sizes)) + 1

\* A tensor is [dtype, sizes, strides, storage, start]: storage is the buffer
\* from data_ptr() on, start the misalignment of data_ptr() in elements.
\* the elements of a tensor in row-major order
LogicalData(t) ==
    [k \in 1 .. Numel(t.sizes) |->
        t.storage[OffsetOf(k - 1, t.sizes, t.strides, Len(t.sizes)) + 1]]

\* Tensor::contiguous()
contiguous(t) ==
    IF is_contiguous(t) THEN t
    ELSE [t EXCEPT !.strides = ContigStrides(t.sizes),
                   !.storage = LogicalData(t),
                   !.start = 0]

\* Tensor::stride(dim), Tensor::size(dim)
stride(t, d) == t.strides[d + 1]

size(t, d) == t.sizes[d + 1]

\* a 0-dim tensor viewed as 1-dim: input.view(1)
view1(t) ==
    IF Len(t.sizes) = 0 THEN [t EXCEPT !.sizes = <<1>>, !.strides = <<1>>] ELSE t

\* ------------------------------------------------------------------------
\* Softmax: element arithmetic.  Finite inputs are small integers.  exp() is
\* modelled exactly in base 2 as an integer numerator over ExpOne, so that
\* exp(0) = ExpOne and exp(-infinity) = 0; a normalised softmax output is the
\* pair <<numerator, sum>>, <<0, 0>> being NaN.
\* ------------------------------------------------------------------------
SmValues == {0, 1}

\* -std::numeric_limits<scalar_t>::infinity()
neginf == 0 - 2000

\* std::numeric_limits<accscalar_t>::lowest()
lowest == 0 - 1000

\* NaN as a sum or an exp() result
ENaN == 0 - 1

\* +infinity as an exp() result
EInf == 0 - 2

\* the largest difference of two finite elements the model produces
MaxDiff == 6

RECURSIVE Pow2(_)
Pow2(n) == IF n <= 0 THEN 1 ELSE 2 * Pow2(n - 1)

ExpOne == Pow2(MaxDiff)

\* Numerics<accscalar_t>::max
NumericsMax(a, b) == IF a > b THEN a ELSE b

\* Numerics<accscalar_t>::exp(x - m)
ExpSub(x, m) ==
    IF x = neginf THEN (IF m = neginf THEN ENaN ELSE 0)
    ELSE IF m = neginf \/ m = lowest THEN EInf
    ELSE IF x >= m THEN ExpOne * Pow2(x - m)
    ELSE ExpOne \div Pow2(m - x)

\* accscalar_t addition of exp() terms
AccAdd(a, b) ==
    IF a = ENaN \/ b = ENaN THEN ENaN
    ELSE IF a = EInf \/ b = EInf THEN EInf
    ELSE a + b

\* the NaN and +infinity outputs
NaNOut == <<0, 0>>

InfOut == <<1, 0>>

\* exp(x - max) * (1 / sum) with sum = 0 giving 1 / 0 = +infinity
MulRecip(e, s) ==
    IF e = ENaN \/ s = ENaN THEN NaNOut
    ELSE IF s = EInf THEN (IF e = EInf THEN NaNOut ELSE <<0, 1>>)
    ELSE IF s = 0 THEN (IF e = 0 THEN NaNOut ELSE InfOut)
    ELSE IF e = EInf THEN InfOut
    ELSE <<e, s>>

\* the register-resident forward kernel: sum_value == 0 writes NaN, any
\* other sum multiplies by its reciprocal
MulRecipGuarded(e, s) == IF s = 0 THEN NaNOut ELSE MulRecip(e, s)

\* a log-softmax output x - max - log(sum), kept symbolically
LogOut(x, m, s) == <<"log", x - m, s>>

\* an output element no work-item wrote
Unwritten == <<"unwritten">>

RECURSIVE FoldMax(_, _, _)
\* running maximum of f over the index set S, starting from init
FoldMax(f, S, init) ==
    IF S = {} THEN init
    ELSE LET k == MinOfSet(S)
         IN FoldMax(f, S \ {k}, NumericsMax(init, f[k]))

RECURSIVE FoldExpSum(_, _, _, _)
\* running sum of exp(f[k] - m) over the index set S
FoldExpSum(f, S, m, init) ==
    IF S = {} THEN init
    ELSE LET k == MinOfSet(S)
         IN FoldExpSum(f, S \ {k}, m, AccAdd(init, ExpSub(f[k], m)))

RECURSIVE FoldSum(_, _, _)
\* running integer sum of f over the index set S
FoldSum(f, S, init) ==
    IF S = {} THEN init
    ELSE LET k == MinOfSet(S)
         IN FoldSum(f, S \ {k}, init + f[k])

\* a storage read; the kernels of the model never read outside the buffer
\* they are given
ReadAt(data, k) == IF k \in DOMAIN data THEN data[k] ELSE 0

\* ------------------------------------------------------------------------
\* Softmax: device properties and execution-shape parameters
\* ------------------------------------------------------------------------
SIMD16 == 16

SIMD32 == 32

MIN_WG_NUM == 32768

\* the properties of the device of the current queue
VARIABLE device

\* dpcppMaxWorkGroupSize(dev_id)
maxWGSize == device.maxWGSize

\* dpcppMaxWorkItemsPerTile(dev_id)
total_resource == 65536

\* sizeof(scalar_t) of the floating dtypes
SizeOf(dtype) ==
    IF dtype = "double" THEN 8 ELSE IF dtype = "float" THEN 4 ELSE 2

\* max_vec_size = float4_size / sizeof(scalar_t)
max_vec_size(dtype) == 16 \div SizeOf(dtype)

CeilDiv(a, b) == (a + b - 1) \div b

RECURSIVE PackRows_NoLimit(_, _, _)
RECURSIVE PackRows(_, _, _)
PackRows_NoLimit(global_size_row, local_size_row, local_size_col) ==
    IF (global_size_row \div 2) > MIN_WG_NUM /\ global_size_row % 2 = 0
    THEN PackRows_NoLimit(global_size_row \div 2, local_size_row * 2, local_size_col)
    ELSE [global_size_row |-> global_size_row, local_size_row |-> local_size_row]
\* get_wgroup_size: the loop that packs several rows into one work-group
PackRows(global_size_row, local_size_row, local_size_col) ==
    IF /\ (global_size_row \div 2) > MIN_WG_NUM
       /\ (local_size_row * 2) * local_size_col <= maxWGSize
       /\ global_size_row % 2 = 0
    THEN PackRows(global_size_row \div 2, local_size_row * 2, local_size_col)
    ELSE [global_size_row |-> global_size_row, local_size_row |-> local_size_row]

RECURSIVE ReduceRange(_, _)
\* get_wgroup_size: the reduce range
ReduceRange(sub_group_num, range) ==
    IF sub_group_num <= (range \div 2) THEN ReduceRange(sub_group_num, range \div 2)
    ELSE range

get_wgroup_size_ColsUnrounded(SIMD, vec_size, NUM, dim_size, outer_size) ==
    LET local_size0 == CeilDiv(dim_size, NUM * vec_size)
        local_size == IF local_size0 < maxWGSize THEN local_size0 ELSE maxWGSize
        sub_group_num == CeilDiv(local_size, SIMD)
        packed == PackRows(outer_size, 1, local_size)
    IN IF dim_size <= vec_size * NUM
       THEN [sub_group_num |-> sub_group_num,
             range |-> "unset",
             global_size_row |-> CeilDiv(outer_size, SIMD),
             local_size_row |-> SIMD,
             local_size_col |-> 1]
       ELSE [sub_group_num |-> sub_group_num,
             range |-> ReduceRange(sub_group_num, SIMD),
             global_size_row |-> packed.global_size_row,
             local_size_row |-> packed.local_size_row,
             local_size_col |-> local_size]
\* get_wgroup_size<SIMD, vec_size, NUM>(dim_size, outer_size, ...); range is
\* left unset on the early return and is not read by any kernel
get_wgroup_size(SIMD, vec_size, NUM, dim_size, outer_size) ==
    LET local_size0 == CeilDiv(dim_size, NUM * vec_size)
        local_size == IF local_size0 < maxWGSize THEN local_size0 ELSE maxWGSize
        sub_group_num == CeilDiv(local_size, SIMD)
        local_size_col == sub_group_num * SIMD
        packed == PackRows(outer_size, 1, local_size_col)
    IN IF dim_size <= vec_size * NUM
       THEN [sub_group_num |-> sub_group_num,
             range |-> "unset",
             global_size_row |-> CeilDiv(outer_size, SIMD),
             local_size_row |-> SIMD,
             local_size_col |-> 1]
       ELSE [sub_group_num |-> sub_group_num,
             range |-> ReduceRange(sub_group_num, SIMD),
             global_size_row |-> packed.global_size_row,
             local_size_row |-> packed.local_size_row,
             local_size_col |-> local_size_col]

ForwardSIMD_NarrowBelowVector(dev_simd, dtype, dim_size) ==
    IF dev_simd = SIMD32 /\ dim_size < SIMD16 * max_vec_size(dtype)
    THEN SIMD16 ELSE dev_simd
\* the subgroup width of the forward paths: the device's, narrowed to 16
\* when dim_size < SIMD16 * INNER_LOOP
ForwardSIMD(dev_simd, dtype, dim_size) ==
    IF dev_simd = SIMD32 /\ dim_size < SIMD16 * (max_vec_size(dtype) * 2)
    THEN SIMD16 ELSE dev_simd

\* the (vec_size, SIMD, outer_loop) instantiation chosen by the
\* register-resident forward paths (plain, masked and fused add)
ForwardConfig_AlwaysVector(dev_simd, dtype, input_start, output_start, dim_size) ==
    [vec_size |-> max_vec_size(dtype), SIMD |-> ForwardSIMD(dev_simd, dtype, dim_size),
     outer_loop |-> 2]
ForwardConfig(dev_simd, dtype, input_start, output_start, dim_size) ==
    LET mvs == max_vec_size(dtype)
        INNER_LOOP == mvs * 2
        SIMD == ForwardSIMD(dev_simd, dtype, dim_size)
        aligned == input_start = 0 /\ output_start = 0 /\ dim_size % mvs = 0
    IN IF SIMD = SIMD32
       THEN IF aligned
            THEN [vec_size |-> mvs, SIMD |-> SIMD32, outer_loop |-> INNER_LOOP \div mvs]
            ELSE [vec_size |-> 1, SIMD |-> SIMD32, outer_loop |-> INNER_LOOP]
       ELSE IF aligned
            THEN IF mvs >= 4 /\ dim_size <= 4 * SIMD
                 THEN [vec_size |-> 4, SIMD |-> SIMD16, outer_loop |-> 1]
                 ELSE IF dim_size <= mvs * SIMD
                 THEN [vec_size |-> mvs, SIMD |-> SIMD16, outer_loop |-> 1]
                 ELSE [vec_size |-> mvs, SIMD |-> SIMD16,
                       outer_loop |-> (INNER_LOOP \div mvs) * 2]
            ELSE [vec_size |-> 1, SIMD |-> SIMD16, outer_loop |-> INNER_LOOP * 2]

\* get_wgroup_size_spatial: the loop that enlarges GroupRow
RECURSIVE GrowGroupRow(_, _, _, _, _)
GrowGroupRow(bs, local_group_num, GroupSize, vec_size, GroupRow) ==
    IF bs * GroupRow * local_group_num * GroupSize < total_resource * vec_size
    THEN IF (GroupRow * 2) * SIMD32 = maxWGSize
         THEN GroupRow * 2
         ELSE GrowGroupRow(bs, local_group_num, GroupSize, vec_size, GroupRow * 2)
    ELSE GroupRow

\* get_wgroup_size_spatial<vec_size>(bs, dim_size, inner_size, ...)
get_wgroup_size_spatial(vec_size, bs, dim_size, inner_size) ==
    LET gs0 == CeilDiv(inner_size, vec_size)
        GroupSize == IF gs0 < SIMD32 THEN gs0 ELSE SIMD32
        local_group_num == CeilDiv(inner_size, GroupSize)
        GroupRow == GrowGroupRow(bs, local_group_num, GroupSize, vec_size, 1)
    IN [local_size |-> GroupSize,
        block_row |-> IF GroupRow < dim_size THEN GroupRow ELSE dim_size]

\* ------------------------------------------------------------------------
\* Softmax: forward kernels.  Each is the function from the input buffer to
\* the output buffer that the work-items of one launch compute together.
\* ------------------------------------------------------------------------
\* the reduction operators handed to the group reductions
BinOp(tag, a, b) == IF tag = "max" THEN NumericsMax(a, b) ELSE AccAdd(a, b)

RECURSIVE SpatialTree(_, _, _, _)
\* group_reduce_spatial: the levels k = 1, 2, 4, ... of the tree over the
\* block_row slots of one column; the result is slot 0
SpatialTree(slots, block_row, tag, k) ==
    IF k >= block_row THEN slots
    ELSE SpatialTree(
           [r \in DOMAIN slots |->
               IF r % (2 * k) = 0 /\ r + k < block_row
               THEN BinOp(tag, slots[r], slots[r + k])
               ELSE slots[r]],
           block_row, tag, 2 * k)

group_reduce_spatial(input, block_row, tag) == SpatialTree(input, block_row, tag, 1)[0]

\* a kernel that never sees a set mask bit
MaskAt_NoMask(mask, lin) == FALSE

\* a mask read through the offset calculator of the iterator
MaskAt(mask, lin) ==
    LET off == OffsetOf(lin, mask.sizes, mask.strides, Len(mask.sizes)) + 1
    IN IF off \in DOMAIN mask.storage THEN mask.storage[off] ELSE FALSE

\* rows that have a work-item past the early return of the register-resident
\* kernels
RegRows(cfg, outer_size) ==
    {r \in 0 .. cfg.global_size_row * cfg.local_size_row - 1 :
        ~(cfg.local_size_col = 1 /\ r >= outer_size)}

\* positions of a row the work-items of the row load: index + j for every
\* index = i * local_stride + lid_offset < dim_size
RegElems(cfg, vec_size, outer_loop, dim_size) ==
    {e \in 0 .. outer_loop * cfg.local_size_col * vec_size - 1 :
        (e \div vec_size) * vec_size < dim_size}

\* the value written at 0-based buffer position pos by the writes W, a set
\* of <<position, value>> pairs; vectors are used only when they tile the
\* rows, so a position has at most one writer
Written(W, pos) ==
    IF \E w \in W : w[1] = pos THEN (CHOOSE w \in W : w[1] = pos)[2] ELSE Unwritten

\* dispatch_softmax_forward_kernel and DispatchSoftmaxForwardKernelFunctor
dispatch_softmax_forward_kernel(LogSoftMax, is_masked, vec_size, SIMD, outer_loop, in_data, out_len, dim_size, outer_size, mask) ==
    LET cfg == get_wgroup_size(SIMD, vec_size, outer_loop, dim_size, outer_size)
        rows == RegRows(cfg, outer_size)
        elems == RegElems(cfg, vec_size, outer_loop, dim_size)
        reg_in(r) ==
            [e \in elems |->
                IF is_masked /\ MaskAt(mask, r * dim_size + e)
                THEN neginf
                ELSE ReadAt(in_data, r * dim_size + e + 1)]
        max_value(r) == FoldMax(reg_in(r), elems, lowest)
        sum_value(r) == FoldExpSum(reg_in(r), elems, max_value(r), 0)
        out_value(r, e) ==
            IF LogSoftMax
            THEN LogOut(reg_in(r)[e], max_value(r), sum_value(r))
            ELSE MulRecipGuarded(ExpSub(reg_in(r)[e], max_value(r)), sum_value(r))
        W == {<<r * dim_size + e, out_value(r, e)>> : r \in rows, e \in elems}
    IN [k \in 1 .. out_len |-> Written(W, k - 1)]

\* softmax_forward_kernel and SoftmaxForwardKernelFunctor; in_start is the
\* misalignment of in_data in elements of scalar_t
softmax_forward_kernel(LogSoftMax, vec_size, in_data, in_start, out_len, dim_size, outer_size) ==
    LET group_offset(g) == g * dim_size
        start(g) == (in_start + group_offset(g)) % vec_size
        loops_end(g) == (dim_size + start(g) + vec_size - 1) \div vec_size
        lin(g) ==
            {x \in {i * vec_size + j - start(g) :
                      i \in 0 .. loops_end(g) - 1, j \in 0 .. vec_size - 1} :
                x >= 0 /\ x < dim_size}
        row(g) == [x \in lin(g) |-> ReadAt(in_data, group_offset(g) + x + 1)]
        max_value(g) == FoldMax(row(g), lin(g), lowest)
        sum_value(g) == FoldExpSum(row(g), lin(g), max_value(g), 0)
        out_value(g, x) ==
            IF LogSoftMax
            THEN LogOut(row(g)[x], max_value(g), sum_value(g))
            ELSE MulRecip(ExpSub(row(g)[x], max_value(g)), sum_value(g))
        W == UNION {{<<group_offset(g) + x, out_value(g, x)>> : x \in lin(g)} :
                      g \in 0 .. outer_size - 1}
    IN [k \in 1 .. out_len |-> Written(W, k - 1)]

\* spatial_softmax_forward and SpatialSoftmaxForwardKernelFunctor
spatial_softmax_forward(LogSoftMax, vec_size, in_data, out_len, dim_size, inner_size, outer_size) ==
    LET gs == get_wgroup_size_spatial(vec_size, outer_size, dim_size, inner_size)
        block_row == gs.block_row
        group_num == CeilDiv(inner_size, gs.local_size * vec_size)
        cols == 0 .. group_num * gs.local_size * vec_size - 1
        at(o, i, c) == ReadAt(in_data, o * dim_size * inner_size + i * inner_size + c + 1)
        rowsOf(rr) == {i \in rr .. dim_size - 1 : (i - rr) % block_row = 0}
        column(o, c) == [i \in 0 .. dim_size - 1 |-> at(o, i, c)]
        part_max(o, c) ==
            [rr \in 0 .. block_row - 1 |->
                FoldMax(column(o, c), rowsOf(rr) \ {rr}, at(o, rr, c))]
        max_value(o, c) ==
            IF block_row > 1 THEN group_reduce_spatial(part_max(o, c), block_row, "max")
            ELSE part_max(o, c)[0]
        part_sum(o, c) ==
            [rr \in 0 .. block_row - 1 |->
                FoldExpSum(column(o, c), rowsOf(rr) \ {rr}, max_value(o, c),
                           ExpSub(at(o, rr, c), max_value(o, c)))]
        sum_value(o, c) ==
            IF block_row > 1 THEN group_reduce_spatial(part_sum(o, c), block_row, "sum")
            ELSE part_sum(o, c)[0]
        out_value(o, i, c) ==
            IF LogSoftMax
            THEN LogOut(at(o, i, c), max_value(o, c), sum_value(o, c))
            ELSE MulRecip(ExpSub(at(o, i, c), max_value(o, c)), sum_value(o, c))
        W == {<<o * dim_size * inner_size + i * inner_size + c, out_value(o, i, c)>> :
                o \in 0 .. outer_size - 1, i \in 0 .. dim_size - 1,
                c \in {x \in cols : (x \div vec_size) * vec_size < inner_size}}
    IN [k \in 1 .. out_len |-> Written(W, k - 1)]

\* ------------------------------------------------------------------------
\* Softmax: backward kernels.  Outputs and gradients are small integers;
\* exp() of a log-softmax output is modelled in base 2.
\* ------------------------------------------------------------------------
\* Numerics<accscalar_t>::exp of a log-softmax output
BwdExp(x) == Pow2(x)

\* the term a position adds to the row's gradient sum
BwdTerm(LogSoftMax, o, g) == IF LogSoftMax THEN g ELSE o * g

\* the gradInput value of a position
BwdValue(LogSoftMax, o, g, sum_value) ==
    IF LogSoftMax THEN g - BwdExp(o) * sum_value ELSE o * (g - sum_value)

\* dispatch_softmax_backward_kernel and DispatchSoftmaxBackwardKernelFunctor
dispatch_softmax_backward_kernel(LogSoftMax, is_masked, vec_size, SIMD, INNER_LOOP, output, gradOutput, out_len, dim_size, outer_size, mask) ==
    LET NUM == (INNER_LOOP \div vec_size) * (SIMD32 \div SIMD)
        cfg == get_wgroup_size(SIMD, vec_size, NUM, dim_size, outer_size)
        rows == RegRows(cfg, outer_size)
        elems == RegElems(cfg, vec_size, NUM, dim_size)
        reg_out(r) ==
            [e \in elems |->
                IF is_masked /\ MaskAt(mask, r * dim_size + e)
                THEN 0
                ELSE ReadAt(output, r * dim_size + e + 1)]
        reg_gradout(r) == [e \in elems |-> ReadAt(gradOutput, r * dim_size + e + 1)]
        terms(r) ==
            [e \in elems |-> BwdTerm(LogSoftMax, reg_out(r)[e], reg_gradout(r)[e])]
        sum_value(r) == FoldSum(terms(r), elems, 0)
        W == {<<r * dim_size + e,
                BwdValue(LogSoftMax, reg_out(r)[e], reg_gradout(r)[e], sum_value(r))>> :
                r \in rows, e \in elems}
    IN [k \in 1 .. out_len |-> Written(W, k - 1)]

\* softmax_backward_kernel and SoftmaxBackwardKernelFunctor; out_start is
\* the misalignment of output in elements of scalar_t
softmax_backward_kernel(LogSoftMax, vec_size, output, gradOutput, out_start, out_len, dim_size, outer_size) ==
    LET group_offset(g) == g * dim_size
        start(g) == (out_start + group_offset(g)) % vec_size
        loops_end(g) == (dim_size + start(g) + vec_size - 1) \div vec_size
        lin(g) ==
            {x \in {i * vec_size + j - start(g) :
                      i \in 0 .. loops_end(g) - 1, j \in 0 .. vec_size - 1} :
                x >= 0 /\ x < dim_size}
        o(g, x) == ReadAt(output, group_offset(g) + x + 1)
        go(g, x) == ReadAt(gradOutput, group_offset(g) + x + 1)
        terms(g) == [x \in lin(g) |-> BwdTerm(LogSoftMax, o(g, x), go(g, x))]
        sum_value(g) == FoldSum(terms(g), lin(g), 0)
        W == UNION {{<<group_offset(g) + x,
                       BwdValue(LogSoftMax, o(g, x), go(g, x), sum_value(g))>> :
                       x \in lin(g)} : g \in 0 .. outer_size - 1}
    IN [k \in 1 .. out_len |-> Written(W, k - 1)]

\* spatial_softmax_backward_kernel and SpatialSoftmaxBackwardKernelFunctor
spatial_softmax_backward_kernel(LogSoftMax, vec_size, output, gradOutput, out_len, dim_size, inner_size, outer_size) ==
    LET gs == get_wgroup_size_spatial(vec_size, outer_size, dim_size, inner_size)
        block_row == gs.block_row
        group_num == CeilDiv(inner_size, gs.local_size * vec_size)
        cols == 0 .. group_num * gs.local_size * vec_size - 1
        pos(ou, i, c) == ou * dim_size * inner_size + i * inner_size + c
        o(ou, i, c) == ReadAt(output, pos(ou, i, c) + 1)
        go(ou, i, c) == ReadAt(gradOutput, pos(ou, i, c) + 1)
        rowsOf(rr) == {i \in rr .. dim_size - 1 : (i - rr) % block_row = 0}
        terms(ou, c) ==
            [i \in 0 .. dim_size - 1 |-> BwdTerm(LogSoftMax, o(ou, i, c), go(ou, i, c))]
        part_sum(ou, c) ==
            [rr \in 0 .. block_row - 1 |-> FoldSum(terms(ou, c), rowsOf(rr), 0)]
        sum_value(ou, c) ==
            IF block_row > 1 THEN group_reduce_spatial(part_sum(ou, c), block_row, "sum")
            ELSE part_sum(ou, c)[0]
        W == {<<pos(ou, i, c),
                BwdValue(LogSoftMax, o(ou, i, c), go(ou, i, c), sum_value(ou, c))>> :
                ou \in 0 .. outer_size - 1, i \in 0 .. dim_size - 1,
                c \in {x \in cols : (x \div vec_size) * vec_size < inner_size}}
    IN [k \in 1 .. out_len |-> Written(W, k - 1)]

\* the subgroup width of the backward paths
BackwardSIMD(dev_simd, dtype, dim_size) ==
    IF dev_simd = SIMD32 /\ dim_size < SIMD16 * max_vec_size(dtype)
    THEN SIMD16 ELSE dev_simd

\* the (vec_size, SIMD) instantiation chosen by the register-resident
\* backward paths (plain and masked)
BackwardConfig(dev_simd, dtype, gradin_start, output_start, gradoutput_start, dim_size) ==
    LET mvs == max_vec_size(dtype)
        aligned == /\ gradin_start = 0 /\ output_start = 0 /\ gradoutput_start = 0
                   /\ dim_size % mvs = 0
    IN [vec_size |-> IF aligned THEN mvs ELSE 1,
        SIMD |-> BackwardSIMD(dev_simd, dtype, dim_size)]

\* ------------------------------------------------------------------------
\* Softmax: operators of the tensor framework the entry points call
\* ------------------------------------------------------------------------
\* a freshly allocated contiguous tensor holding data
Fresh(dtype, sizes, data) ==
    [dtype |-> dtype, sizes |-> sizes, strides |-> ContigStrides(sizes),
     storage |-> data, start |-> 0]

\* c10::optional
Some(v) == [has_value |-> TRUE, value |-> v]

None == [has_value |-> FALSE, value |-> 0]

\* the dtypes IPEX_DISPATCH_FLOATING_TYPES_AND2(Half, BFloat16, ...) accepts
FloatingTypes == {"double", "float", "half", "bfloat16"}

\* Tensor::stride(dim) / size(dim) accept dim in [-rank, rank - 1]
DimInRange(d, rank) == d >= 0 - rank /\ d <= rank - 1

\* the size other has in dimension k of a shape of rank n it is aligned to
\* from the end (1 where other has no such dimension)
AlignedSize(other_sizes, n, k) ==
    LET j == k - (n - Len(other_sizes))
    IN IF j < 1 THEN 1 ELSE other_sizes[j]

\* other can be expanded to exactly these sizes
ExpandableTo(other_sizes, sizes) ==
    /\ Len(other_sizes) <= Len(sizes)
    /\ \A k \in 1 .. Len(sizes) :
          AlignedSize(other_sizes, Len(sizes), k) \in {1, sizes[k]}

\* Tensor::expand(sizes): broadcast dimensions get stride 0
expand(t, sizes) ==
    [t EXCEPT
       !.sizes = sizes,
       !.strides =
          [k \in 1 .. Len(sizes) |->
              LET j == k - (Len(sizes) - Len(t.sizes))
              IN IF j < 1 \/ (t.sizes[j] = 1 /\ sizes[k] /= 1) THEN 0
                 ELSE t.strides[j]]]

\* a masked_fill that copies the tensor and fills nothing
masked_fill_Unfilled(t, mask, value) == Fresh(t.dtype, t.sizes, LogicalData(t))

\* Tensor::masked_fill(mask, value) with mask of the same sizes
masked_fill(t, mask, value) ==
    Fresh(t.dtype, t.sizes,
          [k \in 1 .. Numel(t.sizes) |->
              IF MaskAt(mask, k - 1) THEN value ELSE LogicalData(t)[k]])

\* at::add(input, other, alpha) for other expandable to input's sizes
at_add(input, other, alpha) ==
    LET ob == expand(other, input.sizes)
    IN Fresh(input.dtype, input.sizes,
             [k \in 1 .. Numel(input.sizes) |->
                 LogicalData(input)[k] + alpha * LogicalData(ob)[k]])

RECURSIVE ViewConsume(_, _, _, _, _, _)
\* computeStride: the view dimensions that fill one chunk of the tensor
ViewConsume(newshape, view_d, view_numel, tensor_numel, chunk_base_stride, ns) ==
    IF view_d >= 1 /\ (view_numel < tensor_numel \/ newshape[view_d] = 1)
    THEN ViewConsume(newshape, view_d - 1, view_numel * newshape[view_d],
                     tensor_numel, chunk_base_stride,
                     [ns EXCEPT ![view_d] = view_numel * chunk_base_stride])
    ELSE [view_d |-> view_d, view_numel |-> view_numel, ns |-> ns]

RECURSIVE ViewChunks(_, _, _, _, _, _, _, _)
\* computeStride: the chunks of tensor dimensions that are contiguous among
\* themselves, from the last dimension to the first
ViewChunks(oldshape, oldstride, newshape, tensor_d, view_d, chunk_base_stride, numel_so_far, ns) ==
    LET tensor_numel == numel_so_far * oldshape[tensor_d]
    IN IF tensor_d = 1 \/
          (oldshape[tensor_d - 1] /= 1 /\
           oldstride[tensor_d - 1] /= tensor_numel * chunk_base_stride)
       THEN LET c == ViewConsume(newshape, view_d, 1, tensor_numel,
                                 chunk_base_stride, ns)
            IN IF c.view_numel /= tensor_numel THEN [ok |-> FALSE, strides |-> << >>]
               ELSE IF tensor_d > 1
               THEN ViewChunks(oldshape, oldstride, newshape, tensor_d - 1,
                               c.view_d, oldstride[tensor_d - 1], 1, c.ns)
               ELSE [ok |-> c.view_d = 0, strides |-> c.ns]
       ELSE ViewChunks(oldshape, oldstride, newshape, tensor_d - 1, view_d,
                       chunk_base_stride, tensor_numel, ns)

\* Tensor::view(sizes): [ok, tensor]; a view shares the storage and exists
\* only when the new sizes can be laid over the old strides
view(t, newsizes) ==
    LET same == t.sizes = newsizes
        r == IF Numel(t.sizes) /= Numel(newsizes)
             THEN [ok |-> FALSE, strides |-> << >>]
             ELSE IF Len(t.sizes) = 0 \/ Numel(t.sizes) = 0
             THEN [ok |-> TRUE,
                   strides |-> IF same THEN t.strides ELSE ContigStrides(newsizes)]
             ELSE IF Len(newsizes) = 0
             THEN [ok |-> TRUE, strides |-> << >>]
             ELSE ViewChunks(t.sizes, t.strides, newsizes, Len(t.sizes),
                             Len(newsizes), t.strides[Len(t.sizes)], 1,
                             [k \in 1 .. Len(newsizes) |-> 0])
    IN [ok |-> r.ok,
        tensor |-> IF r.ok THEN [t EXCEPT !.sizes = newsizes, !.strides = r.strides]
                   ELSE t]

\* the softmax of mathematics over axis dim of row-major data
RefSoftmax(LogSoftMax, data, sizes, dim) ==
    LET inner == InnerSize(sizes, dim)
        dim_size == sizes[dim + 1]
        slice(k) ==
            LET o == (k - 1) \div (dim_size * inner)
                c == (k - 1) % inner
            IN {o * dim_size * inner + i * inner + c + 1 : i \in 0 .. dim_size - 1}
        m(k) == FoldMax(data, slice(k), neginf)
        sum(k) == FoldExpSum(data, slice(k), m(k), 0)
    IN [k \in 1 .. Numel(sizes) |->
          IF LogSoftMax THEN LogOut(data[k], m(k), sum(k))
          ELSE MulRecip(ExpSub(data[k], m(k)), sum(k))]

\* the softmax backward of mathematics over axis dim of row-major data
RefSoftmaxBackward(LogSoftMax, output, gradOutput, sizes, dim) ==
    LET inner == InnerSize(sizes, dim)
        dim_size == sizes[dim + 1]
        slice(k) ==
            LET o == (k - 1) \div (dim_size * inner)
                c == (k - 1) % inner
            IN {o * dim_size * inner + i * inner + c + 1 : i \in 0 .. dim_size - 1}
        terms == [k \in 1 .. Numel(sizes) |-> BwdTerm(LogSoftMax, output[k], gradOutput[k])]
    IN [k \in 1 .. Numel(sizes) |->
          BwdValue(LogSoftMax, output[k], gradOutput[k], FoldSum(terms, slice(k), 0))]

\* ------------------------------------------------------------------------
\* Softmax: outcomes of a call.  launches lists what was submitted or
\* executed, in order: core kernels with the contiguity of their tensor
\* arguments, and library (oneDNN) primitives.
\* ------------------------------------------------------------------------
Ok(launches, out) ==
    [status |-> "ok", why |-> "none", launches |-> launches, out |-> out]

\* a failed TORCH_CHECK / AT_ASSERT / dispatch: the exception leaves the call
Fail(why) ==
    [status |-> "check_failure", why |-> why, launches |-> << >>, out |-> << >>]

\* behaviour the language leaves undefined
Undefined(why) ==
    [status |-> "undefined", why |-> why, launches |-> << >>, out |-> << >>]

\* no call made yet
Idle == [status |-> "idle", why |-> "none", launches |-> << >>, out |-> << >>]

Launch(kernel, args_contiguous) ==
    [kernel |-> kernel, core |-> TRUE, contiguous |-> args_contiguous]

Library(name) == [kernel |-> name, core |-> FALSE, contiguous |-> TRUE]

\* ------------------------------------------------------------------------
\* Softmax: forward dispatch and entry points.  env is the environment of a
\* call: [dev_simd, big, eng, blocked] = the device's subgroup width, whether
\* the tensors are too large for 32-bit index arithmetic, the compute engine
\* chosen for softmax forward, and whether the backward operands are in the
\* library's blocked layout.
\* ------------------------------------------------------------------------
\* a mask argument for the kernels launched without one
NoMask == [sizes |-> << >>, strides |-> << >>, storage |-> << >>]

\* SpatialSoftMaxForward<scalar_t, accscalar_t, LogSoftMax>(output, input, dim)
SpatialSoftMaxForward(LogSoftMax, input, dim, output_start, env) ==
    LET inner_size == stride(input, dim)
        dim_size == size(input, dim)
        outer_size == Numel(input.sizes) \div (inner_size * dim_size)
        mvs == max_vec_size(input.dtype)
        INNER_LOOP == mvs * 2
        can_use_32bit_index == ~env.big
        out_len == Numel(input.sizes)
        c == ForwardConfig(env.dev_simd, input.dtype, input.start, output_start, dim_size)
    IN IF inner_size = 1
       THEN IF can_use_32bit_index /\ maxWGSize * INNER_LOOP >= dim_size
            THEN Ok(<<Launch("dispatch_softmax_forward_kernel", is_contiguous(input))>>,
                    dispatch_softmax_forward_kernel(
                        LogSoftMax, FALSE, c.vec_size, c.SIMD, c.outer_loop,
                        input.storage, out_len, dim_size, outer_size, NoMask))
            ELSE Ok(<<Launch("softmax_forward_kernel", is_contiguous(input))>>,
                    softmax_forward_kernel(
                        LogSoftMax, IF input.start = output_start THEN mvs ELSE 1,
                        input.storage, input.start, out_len, dim_size, outer_size))
       ELSE Ok(<<Launch("spatial_softmax_forward", is_contiguous(input))>>,
               spatial_softmax_forward(
                   LogSoftMax,
                   IF input.start = output_start /\ inner_size % mvs = 0 THEN mvs ELSE 1,
                   input.storage, out_len, dim_size, inner_size, outer_size))

\* host_softmax<LogSoftMax>(input_, dim_, half_to_float, output)
host_softmax(LogSoftMax, input_, dim_, half_to_float, output_start, env) ==
    IF half_to_float THEN Fail("half_to_float")
    ELSE IF ~is_contiguous(input_) THEN Fail("contiguous")
    ELSE LET input == view1(input_)
         IN IF ~DimInRange(dim_, Len(input.sizes)) THEN Fail("dim")
            ELSE IF Numel(input.sizes) > 0
            THEN IF input.dtype \notin FloatingTypes THEN Fail("dispatch")
                 ELSE SpatialSoftMaxForward(
                          LogSoftMax, input, maybe_wrap_dim(dim_, Len(input.sizes)),
                          output_start, env)
            ELSE Ok(<< >>, << >>)

\* xpu::oneDNN::softmax(input_, dim, half_to_float, out): the library
\* primitive, which computes the softmax of mathematics over the axis
onednn_softmax(input_, dim, half_to_float) ==
    LET input == view1(input_)
    IN IF ~DimInRange(dim, Len(input.sizes)) THEN Fail("dim")
       ELSE Ok(<<Library("onednn_softmax")>>,
               RefSoftmax(FALSE, LogicalData(input), input.sizes,
                          maybe_wrap_dim(dim, Len(input.sizes))))

\* xpu::oneDNN::softmax_valid(input_): the dtype is one the library supports
\* and the tensor is contiguous
softmax_valid(input_) == input_.dtype \in FloatingTypes /\ is_contiguous(input_)

\* _softmax_out(input_, dim, half_to_float, out); env.eng is what
\* choose_compute_eng returns
softmax_out(input_, dim, half_to_float, output_start, env) ==
    IF softmax_valid(input_) /\ env.eng = "ONEDNN"
    THEN onednn_softmax(input_, dim, half_to_float)
    ELSE host_softmax(FALSE, contiguous(input_), dim, half_to_float, output_start, env)

\* _log_softmax_out(self, dim, half_to_float, out)
log_softmax_out(self_, dim, half_to_float, output_start, env) ==
    host_softmax(TRUE, contiguous(self_), dim, half_to_float, output_start, env)

\* MaskedSoftMaxForward<scalar_t, accscalar_t, LogSoftMax>(output, input, dim, mask)
MaskedSoftMaxForward(LogSoftMax, input, dim, mask, env) ==
    LET d == maybe_wrap_dim(dim, Len(input.sizes))
        inner_size == stride(input, d)
        dim_size == size(input, d)
        mvs == max_vec_size(input.dtype)
        INNER_LOOP == mvs * 2
        can_use_32bit_index == ~env.big
        c == ForwardConfig(env.dev_simd, input.dtype, input.start, 0, dim_size)
    IN IF ~DimInRange(dim, Len(input.sizes)) THEN Fail("dim")
       ELSE IF inner_size * dim_size = 0 THEN Undefined("division by zero")
       ELSE IF ~ExpandableTo(mask.sizes, input.sizes) THEN Fail("broadcast")
       ELSE IF inner_size = 1 /\ can_use_32bit_index
               /\ maxWGSize * INNER_LOOP >= dim_size
       THEN Ok(<<Launch("dispatch_softmax_forward_kernel", is_contiguous(input))>>,
               dispatch_softmax_forward_kernel(
                   LogSoftMax, TRUE, c.vec_size, c.SIMD, c.outer_loop,
                   input.storage, Numel(input.sizes), dim_size,
                   Numel(input.sizes) \div (inner_size * dim_size),
                   expand(mask, input.sizes)))
       ELSE softmax_out(
                masked_fill(input, expand(mask, input.sizes), neginf),
                d, FALSE, 0, env)

\* _masked_softmax(input_, mask_, dim_, mask_type_)
masked_softmax(input_, mask_, dim_, mask_type_, env) ==
    LET mask_type == mask_type_.value
        is_BxT_mask ==
            /\ mask_type = 1
            /\ Len(input_.sizes) = 4 /\ Len(mask_.sizes) = 2
            /\ input_.sizes[1] = mask_.sizes[1]
            /\ input_.sizes[3] = mask_.sizes[2]
            /\ input_.sizes[4] = mask_.sizes[2]
        is_TxT_mask ==
            /\ mask_type = 0
            /\ Len(input_.sizes) = 4 /\ Len(mask_.sizes) = 2
            /\ input_.sizes[4] = mask_.sizes[2]
            /\ input_.sizes[3] = mask_.sizes[1]
            /\ mask_.sizes[1] = mask_.sizes[2]
        input == view1(input_)
        mask0 == view1(mask_)
        dim == IF dim_.has_value THEN dim_.value ELSE Len(input.sizes) - 1
        mask == IF is_BxT_mask
                THEN view(mask0, <<mask_.sizes[1], 1, 1, mask_.sizes[2]>>).tensor
                ELSE mask0
    IN IF mask_.dtype /= "bool" THEN Fail("mask_dtype")
       ELSE IF ~mask_type_.has_value THEN Fail("mask_type")
       ELSE IF mask_type \notin {0, 1, 2} THEN Fail("mask_type")
       ELSE IF ~(mask_.sizes = input_.sizes \/ is_BxT_mask \/ is_TxT_mask)
       THEN Fail("mask_shape")
       ELSE IF input.dtype \notin FloatingTypes THEN Fail("dispatch")
       ELSE MaskedSoftMaxForward(FALSE, input, dim, mask, env)

\* ------------------------------------------------------------------------
\* Softmax: backward dispatch and entry points
\* ------------------------------------------------------------------------
\* SpatialSoftMaxBackward<scalar_t, accscalar_t, LogSoftMax>(gradInput, output,
\* gradOutput, dim)
SpatialSoftMaxBackward(LogSoftMax, gradin_start, output, gradOutput, dim, env) ==
    LET inner_size == stride(output, dim)
        dim_size == size(output, dim)
        outer_size == Numel(output.sizes) \div (dim_size * inner_size)
        mvs == max_vec_size(output.dtype)
        INNER_LOOP == mvs
        can_use_32bit_index == ~env.big
        out_len == Numel(output.sizes)
        same_start == gradin_start = output.start /\ gradin_start = gradOutput.start
        contig == is_contiguous(output) /\ is_contiguous(gradOutput)
        c == BackwardConfig(env.dev_simd, output.dtype, gradin_start, output.start,
                            gradOutput.start, dim_size)
    IN IF inner_size = 1
       THEN IF can_use_32bit_index /\ maxWGSize * INNER_LOOP >= dim_size
            THEN Ok(<<Launch("dispatch_softmax_backward_kernel", contig)>>,
                    dispatch_softmax_backward_kernel(
                        LogSoftMax, FALSE, c.vec_size, c.SIMD, INNER_LOOP,
                        output.storage, gradOutput.storage, out_len,
                        dim_size, outer_size, NoMask))
            ELSE Ok(<<Launch("softmax_backward_kernel", contig)>>,
                    softmax_backward_kernel(
                        LogSoftMax, IF same_start THEN mvs ELSE 1,
                        output.storage, gradOutput.storage, output.start, out_len,
                        dim_size, outer_size))
       ELSE Ok(<<Launch("spatial_softmax_backward_kernel", contig)>>,
               spatial_softmax_backward_kernel(
                   LogSoftMax,
                   IF same_start /\ inner_size % mvs = 0 THEN mvs ELSE 1,
                   output.storage, gradOutput.storage, out_len,
                   dim_size, inner_size, outer_size))

\* host_softmax_backward<LogSoftMax>(grad_, output_, dim_, half_to_float, gI)
host_softmax_backward(LogSoftMax, grad_, output_, dim_, half_to_float, gradin_start, env) ==
    IF half_to_float THEN Fail("half_to_float")
    ELSE IF ~is_contiguous(grad_) THEN Fail("contiguous")
    ELSE IF ~is_contiguous(output_) THEN Fail("contiguous")
    ELSE IF ~(dim_ \in ValidDims(Len(grad_.sizes))) THEN Fail("dim")
    ELSE IF Numel(output_.sizes) = 0 THEN Ok(<< >>, << >>)
    ELSE LET grad == view1(grad_)
             output == view1(output_)
             dim == maybe_wrap_dim(dim_, Len(grad_.sizes))
         IN IF grad.dtype \notin FloatingTypes THEN Fail("dispatch")
            ELSE SpatialSoftMaxBackward(LogSoftMax, gradin_start, output, grad, dim, env)

\* xpu::oneDNN::softmax_backward(grad_output, output, dim, half_to_float,
\* grad_input): the library primitive
onednn_softmax_backward(grad_output, output, dim) ==
    LET go == view1(grad_output)
        o == view1(output)
    IN IF ~DimInRange(dim, Len(go.sizes)) THEN Fail("dim")
       ELSE Ok(<<Library("onednn_softmax_backward")>>,
               RefSoftmaxBackward(FALSE, LogicalData(o), LogicalData(go), go.sizes,
                                  maybe_wrap_dim(dim, Len(go.sizes))))

\* _softmax_backward_data_out(grad_output, output, dim, input_dtype, grad_input)
softmax_backward_data_out(grad_output, output, dim, input_dtype, gradin_start, env) ==
    LET half_to_float == grad_output.dtype /= input_dtype
    IN IF half_to_float THEN Fail("half_to_float")
       ELSE IF env.blocked THEN onednn_softmax_backward(grad_output, output, dim)
       ELSE host_softmax_backward(
                FALSE, contiguous(grad_output), contiguous(output), dim,
                half_to_float, gradin_start, env)

\* _log_softmax_backward_data_out(grad_output, output, dim, input_dtype, out)
log_softmax_backward_data_out(grad_output, output, dim, input_dtype, gradin_start, env) ==
    LET half_to_float == grad_output.dtype /= input_dtype
    IN IF half_to_float THEN Fail("half_to_float")
       ELSE host_softmax_backward(
                TRUE, contiguous(grad_output), contiguous(output), dim,
                half_to_float, gradin_start, env)

\* MaskedSoftMaxBackward<scalar_t, accscalar_t, LogSoftMax>(gradInput, output,
\* gradOutput, mask, dim)
MaskedSoftMaxBackward(LogSoftMax, output, gradOutput, mask, dim, env) ==
    LET inner_size == stride(output, dim)
        dim_size == size(output, dim)
        outer_size == Numel(output.sizes) \div (dim_size * inner_size)
        mvs == max_vec_size(output.dtype)
        INNER_LOOP == mvs
        can_use_32bit_index == ~env.big
        c == BackwardConfig(env.dev_simd, output.dtype, 0, output.start,
                            gradOutput.start, dim_size)
    IN IF inner_size = 1 /\ can_use_32bit_index /\ maxWGSize * INNER_LOOP >= dim_size
       THEN Ok(<<Launch("dispatch_softmax_backward_kernel",
                        is_contiguous(output) /\ is_contiguous(gradOutput))>>,
               dispatch_softmax_backward_kernel(
                   LogSoftMax, TRUE, c.vec_size, c.SIMD, INNER_LOOP,
                   output.storage, gradOutput.storage, Numel(output.sizes),
                   dim_size, outer_size, mask))
       ELSE softmax_backward_data_out(
                gradOutput, masked_fill(output, mask, 0), dim, gradOutput.dtype,
                0, [env EXCEPT !.blocked = FALSE])

\* _masked_softmax_backward(grad_, output_, mask_, dim_)
masked_softmax_backward(grad_, output_, mask_, dim_, env) ==
    IF Numel(grad_.sizes) = 0 THEN Ok(<< >>, << >>)
    ELSE LET grad == view1(contiguous(grad_))
             output == view1(contiguous(output_))
             mask == view1(contiguous(mask_))
             dim == IF dim_.has_value
                    THEN maybe_wrap_dim(dim_.value, Len(output_.sizes))
                    ELSE Len(output_.sizes) - 1
         IN IF dim_.has_value /\ ~(dim_.value \in ValidDims(Len(output_.sizes)))
            THEN Fail("dim")
            ELSE IF ~(dim >= 0 /\ dim < Len(grad.sizes)) THEN Fail("dim")
            ELSE IF grad.sizes /= mask.sizes THEN Fail("mask_shape")
            ELSE IF mask.dtype /= "bool" THEN Fail("mask_dtype")
            ELSE IF grad.dtype \notin FloatingTypes THEN Fail("dispatch")
            ELSE MaskedSoftMaxBackward(FALSE, output, grad, mask, dim, env)

\* ------------------------------------------------------------------------
\* Softmax: fused add + softmax
\* ------------------------------------------------------------------------
\* dispatch_softmax_forward_add_kernel and
\* DispatchSoftmaxForwardAddKernelFunctor: input and other (expanded to the
\* iterator's shape) are read through the offset calculator
dispatch_softmax_forward_add_kernel(vec_size, SIMD, outer_loop, input, other, alpha, out_len, dim_size, outer_size) ==
    LET cfg == get_wgroup_size(SIMD, vec_size, outer_loop, dim_size, outer_size)
        rows == RegRows(cfg, outer_size)
        elems == RegElems(cfg, vec_size, outer_loop, dim_size)
        input_value(lin) ==
            ReadAt(input.storage,
                   OffsetOf(lin, input.sizes, input.strides, Len(input.sizes)) + 1)
        other_value(lin) ==
            ReadAt(other.storage,
                   OffsetOf(lin, other.sizes, other.strides, Len(other.sizes)) + 1)
        reg_in(r) ==
            [e \in elems |->
                input_value(r * dim_size + e) + alpha * other_value(r * dim_size + e)]
        max_value(r) == FoldMax(reg_in(r), elems, lowest)
        sum_value(r) == FoldExpSum(reg_in(r), elems, max_value(r), 0)
        W == {<<r * dim_size + e,
                MulRecip(ExpSub(reg_in(r)[e], max_value(r)), sum_value(r))>> :
                r \in rows, e \in elems}
    IN [k \in 1 .. out_len |-> Written(W, k - 1)]

\* the unfused composition at::softmax(at::add(input, other, alpha)
\* [.view(sizes)], dim, dtype)
at_softmax_of_add(input, other, alpha, sizes_, dim, dtype, env) ==
    IF ~ExpandableTo(other.sizes, input.sizes) THEN Fail("broadcast")
    ELSE LET sum == at_add(input, other, alpha)
             v == IF sizes_.has_value THEN view(sum, sizes_.value)
                  ELSE [ok |-> TRUE, tensor |-> sum]
             converted == IF dtype.has_value
                          THEN [v.tensor EXCEPT !.dtype = dtype.value]
                          ELSE v.tensor
         IN IF ~v.ok THEN Fail("view")
            ELSE softmax_out(converted, dim, FALSE, 0, env)

\* shape_use_fused_path(input, other): "true", "false", or "undefined" when
\* the loop takes a remainder by a zero extent
shape_use_fused_path(input, other) ==
    LET a_dim == Len(input.sizes)
        b_dim == Len(other.sizes)
        bad == {i \in 1 .. b_dim :
                  \/ other.sizes[b_dim - i + 1] = 0
                  \/ input.sizes[a_dim - i + 1] % other.sizes[b_dim - i + 1] /= 0}
    IN IF input.sizes = other.sizes THEN "true"
       ELSE IF b_dim > a_dim THEN "false"
       ELSE IF bad = {} THEN "true"
       ELSE IF other.sizes[b_dim - MinOfSet(bad) + 1] = 0 THEN "undefined"
       ELSE "false"

\* add_view_softmax_impl<scalar_t, accscalar_t>(input, other, dim, alpha,
\* output, sizes)
add_view_softmax_impl(input, other, dim, alpha, sizes, env) ==
    LET vo == view(input, sizes)
        view_output == vo.tensor
        d == maybe_wrap_dim(dim, Len(sizes))
        inner_size == stride(view_output, d)
        dim_size == size(view_output, d)
        can_use_32bit_index == ~env.big
        mvs == max_vec_size(input.dtype)
        INNER_LOOP == mvs * 2
        fuse_pattern == /\ inner_size = 1 /\ can_use_32bit_index
                        /\ maxWGSize * INNER_LOOP >= dim_size
        c == ForwardConfig(env.dev_simd, input.dtype, input.start, 0, dim_size)
    IN IF ~vo.ok THEN Fail("view")
       ELSE IF Len(sizes) = 0 \/ ~DimInRange(dim, Len(sizes)) THEN Fail("dim")
       ELSE IF inner_size * dim_size = 0 THEN Undefined("division by zero")
       ELSE IF fuse_pattern
       THEN IF ~ExpandableTo(other.sizes, input.sizes) THEN Fail("broadcast")
            ELSE Ok(<<Launch("dispatch_softmax_forward_add_kernel",
                             is_contiguous(input) /\ is_contiguous(other))>>,
                    dispatch_softmax_forward_add_kernel(
                        c.vec_size, c.SIMD, c.outer_loop, input,
                        expand(other, input.sizes), alpha, Numel(input.sizes),
                        dim_size, Numel(sizes) \div (inner_size * dim_size)))
       ELSE at_softmax_of_add(input, other, alpha, Some(sizes), dim, None, env)

\* the test both fused entry points make before the fused implementation
AddFallsBack(input, other, dtype) ==
    \/ shape_use_fused_path(input, other) = "false"
    \/ input.dtype /= other.dtype
    \/ (dtype.has_value /\ dtype.value /= input.dtype)

\* add_softmax(input, other, alpha, dim, dtype)
add_softmax(input, other, alpha, dim, dtype, env) ==
    IF shape_use_fused_path(input, other) = "undefined"
    THEN Undefined("remainder by zero")
    ELSE IF AddFallsBack(input, other, dtype)
    THEN at_softmax_of_add(input, other, alpha, None, dim, dtype, env)
    ELSE IF input.dtype \notin FloatingTypes THEN Fail("dispatch")
    ELSE add_view_softmax_impl(input, other, dim, alpha, input.sizes, env)

\* add_view_softmax(input, other, alpha, sizes, dim, dtype)
add_view_softmax(input, other, alpha, sizes, dim, dtype, env) ==
    IF shape_use_fused_path(input, other) = "undefined"
    THEN Undefined("remainder by zero")
    ELSE IF AddFallsBack(input, other, dtype)
    THEN at_softmax_of_add(input, other, alpha, Some(sizes), dim, dtype, env)
    ELSE IF Numel(sizes) /= Numel(input.sizes) THEN Fail("view")
    ELSE IF input.dtype \notin FloatingTypes THEN Fail("dispatch")
    ELSE add_view_softmax_impl(input, other, dim, alpha, sizes, env)

\* ------------------------------------------------------------------------
\* State
\* ------------------------------------------------------------------------
VARIABLES
    op,          \* "min" or "max": which of _min_out / _max_out was called
    self,        \* the input tensor: [dtype, sizes, data]
    dim,         \* the wrapped reduction axis (0-based)
    keepdim,     \* the keepdim flag
    pc,          \* "idle", "reducing", "returned" or "failed"
    path,        \* branch taken: "none", "zero", "trivial" or "kernel"
    failure,     \* "none", "complex" (TORCH_CHECK), "dispatch", "zero_dim"
    values,      \* the min / max output tensor: [resized, written, sizes, data]
    indices,     \* the min_indices / max_indices output tensor
    launched,    \* whether dpcpp_reduce_kernel was launched
    acc,         \* kernel: accumulator of each output position
    seen,        \* kernel: indices already folded, per output position
    call,        \* softmax family: the entry point called and its arguments
    result,      \* softmax family: how the call ended, [status, why, launches,
                 \* out]: "idle" / "ok" / "check_failure" / "undefined", the
                 \* check that failed, the kernels and library primitives run,
                 \* and the buffer of the returned tensor
    pOp,         \* chunked reduction: "min" or "max"
    pSlice,      \* chunked reduction: the slice being reduced
    pParts,      \* chunked reduction: the partial accumulators, one per chunk
    disp,        \* softmax dispatch: the operands' geometry and the strategy,
                 \* instantiation and work-group shape chosen for them
    wgKernel,    \* work-group: the kernel launched and its launch parameters
    wgThread,    \* work-group: position of every subgroup / work-item
    wgReg,       \* work-group: the registers of every work-item
    wgMem,       \* work-group: the group-local scratch buffers
    wgLog,       \* work-group: scratch accesses since the last barrier
    fused,       \* fused-add shape test: the two shapes and the outcome
    gm           \* global memory: the kernel launched, the groups that have
                 \* run, and the reads and writes their work-items made

mmVars == <<op, self, dim, keepdim, pc, path, failure, values, indices,
            launched, acc, seen>>

smVars == <<call, result>>

prVars == <<pOp, pSlice, pParts>>

dsVars == <<disp>>

wgVars == <<wgKernel, wgThread, wgReg, wgMem, wgLog>>

gmVars == <<fused, gm, device>>

exVars == <<prVars, dsVars, wgVars, gmVars>>

vars == <<mmVars, smVars, exVars>>

\* an output tensor as at::empty({0}) leaves it
EmptyOut == [resized |-> FALSE, written |-> FALSE, sizes |-> <<0>>, data |-> << >>]

InitMinMax ==
    /\ op = "min"
    /\ self = [dtype |-> "float", sizes |-> <<0>>, data |-> << >>]
    /\ dim = 0
    /\ keepdim = FALSE
    /\ pc = "idle"
    /\ path = "none"
    /\ failure = "none"
    /\ values = EmptyOut
    /\ indices = EmptyOut
    /\ launched = FALSE
    /\ acc = << >>
    /\ seen = << >>
    /\ call = [entry |-> "none"]
    /\ result = Idle
    /\ pOp = "min"
    /\ pSlice = << >>
    /\ pParts = {}
    /\ disp = [site |-> "none"]
    /\ wgKernel = [kind |-> "none"]
    /\ wgThread = << >>
    /\ wgReg = << >>
    /\ wgMem = << >>
    /\ wgLog = {}
    /\ fused = [result |-> "none"]
    /\ gm = [kind |-> "none"]
    /\ device = [maxWGSize |-> 1024, selected |-> FALSE]

\* ------------------------------------------------------------------------
\* Framework helpers called by _min_out / _max_out
\* ------------------------------------------------------------------------
\* at::native::_dimreduce_return_trivial_no_ident: true exactly for a
\* zero-dimensional single-element tensor, after resize_({}) and fill_(self)
dimreduce_return_trivial_no_ident(t) == Numel(t.sizes) = 1 /\ Len(t.sizes) = 0

\* the result tensor as _dimreduce_return_trivial_no_ident leaves it
TrivialValues(t) ==
    [resized |-> TRUE, written |-> TRUE, sizes |-> << >>, data |-> <<t.data[1]>>]

TrivialIndices_Unfilled == [resized |-> TRUE, written |-> FALSE, sizes |-> << >>, data |-> << >>]

\* min_indices.resize_({}).fill_(0)
TrivialIndices == [resized |-> TRUE, written |-> TRUE, sizes |-> << >>, data |-> <<0>>]

\* zero_numel_tensor_resize: the reduced axis must not be empty
zero_numel_check_dims(t, d) == Len(t.sizes) = 0 \/ t.sizes[d + 1] /= 0

\* an output tensor resized to the reduced shape, not yet written
ResizedOut(t, d, keep) ==
    [resized |-> TRUE, written |-> FALSE, sizes |-> ReducedSizes(t.sizes, d, keep),
     data |-> << >>]

\* IPEX_DISPATCH_ALL_TYPES_AND3(kBFloat16, kHalf, kBool, ...): complex dtypes
\* are not in the dispatch list
DispatchAllTypes(dtype) == dtype /= "complex"

\* ------------------------------------------------------------------------
\* _min_out / _max_out (host side, up to the kernel launch)
\* ------------------------------------------------------------------------
MinMaxOut(o, t, d0, keep) ==
    LET d == maybe_wrap_dim(d0, Len(t.sizes))
    IN
    /\ pc = "idle"
    /\ UNCHANGED <<smVars, exVars>>
    /\ op' = o
    /\ self' = t
    /\ dim' = d
    /\ keepdim' = keep
    /\ IF Numel(t.sizes) = 0
       THEN \* zero_numel_tensor_resize(...); return
            IF zero_numel_check_dims(t, d)
            THEN /\ values' = ResizedOut(t, d, keep)
                 /\ indices' = ResizedOut(t, d, keep)
                 /\ pc' = "returned"
                 /\ path' = "zero"
                 /\ failure' = "none"
                 /\ UNCHANGED <<launched, acc, seen>>
            ELSE /\ pc' = "failed"
                 /\ path' = "zero"
                 /\ failure' = "zero_dim"
                 /\ UNCHANGED <<values, indices, launched, acc, seen>>
       ELSE IF dimreduce_return_trivial_no_ident(t)
       THEN \* the helper has already resized and filled the result
            /\ values' = TrivialValues(t)
            /\ path' = "trivial"
            /\ IF t.dtype = "complex"
               THEN \* TORCH_CHECK(!self.is_complex(), ...)
                    /\ pc' = "failed"
                    /\ failure' = "complex"
                    /\ UNCHANGED <<indices, launched, acc, seen>>
               ELSE /\ indices' = TrivialIndices
                    /\ pc' = "returned"
                    /\ failure' = "none"
                    /\ UNCHANGED <<launched, acc, seen>>
       ELSE \* make_reduction(...) resizes both outputs
            /\ values' = ResizedOut(t, d, keep)
            /\ indices' = ResizedOut(t, d, keep)
            /\ path' = "kernel"
            /\ IF DispatchAllTypes(t.dtype)
               THEN \* dpcpp_reduce_kernel(iter, ops, ident)
                    /\ launched' = TRUE
                    /\ acc' = [p \in 0 .. (NumSlices(t.sizes, d) - 1) |-> ident(o)]
                    /\ seen' = [p \in 0 .. (NumSlices(t.sizes, d) - 1) |-> {}]
                    /\ pc' = "reducing"
                    /\ failure' = "none"
               ELSE /\ pc' = "failed"
                    /\ failure' = "dispatch"
                    /\ UNCHANGED <<launched, acc, seen>>

min_out ==
    /\ pc = "idle"
    /\ \E s \in Shapes, dt \in {"float", "complex"}, keep \in BOOLEAN :
         \E d \in ValidDims(Len(s)), x \in [1 .. Numel(s) -> Values] :
           /\ (dt = "complex" => \A k \in 1 .. Numel(s) : x[k] = 0)
           /\ MinMaxOut("min", [dtype |-> dt, sizes |-> s, data |-> x], d, keep)

max_out ==
    /\ pc = "idle"
    /\ \E s \in Shapes, dt \in {"float", "complex"}, keep \in BOOLEAN :
         \E d \in ValidDims(Len(s)), x \in [1 .. Numel(s) -> Values] :
           /\ (dt = "complex" => \A k \in 1 .. Numel(s) : x[k] = 0)
           /\ MinMaxOut("max", [dtype |-> dt, sizes |-> s, data |-> x], d, keep)

\* ------------------------------------------------------------------------
\* dpcpp_reduce_kernel: every element of every slice is folded into the
\* accumulator of its output position, in no particular order; the kernel
\* ends by projecting the accumulators into the two outputs
\* ------------------------------------------------------------------------
ReduceStep ==
    /\ pc = "reducing"
    /\ \E p \in DOMAIN acc :
         \E i \in (0 .. (DimSize(self.sizes, dim) - 1)) \ seen[p] :
           /\ acc' = [acc EXCEPT
                        ![p] = reduce(op, acc[p],
                                      self.data[SliceOffset(self.sizes, dim, p, i)], i)]
           /\ seen' = [seen EXCEPT ![p] = seen[p] \cup {i}]
    /\ UNCHANGED <<op, self, dim, keepdim, pc, path, failure, values, indices, launched>>
    /\ UNCHANGED <<smVars, exVars>>

Project ==
    /\ pc = "reducing"
    /\ \A p \in DOMAIN seen : seen[p] = 0 .. (DimSize(self.sizes, dim) - 1)
    /\ values' = [values EXCEPT !.written = TRUE,
                                !.data = [p \in 1 .. NumSlices(self.sizes, dim) |-> acc[p - 1].first]]
    /\ indices' = [indices EXCEPT !.written = TRUE,
                                  !.data = [p \in 1 .. NumSlices(self.sizes, dim) |-> acc[p - 1].second]]
    /\ pc' = "returned"
    /\ UNCHANGED <<op, self, dim, keepdim, path, failure, launched, acc, seen>>
    /\ UNCHANGED <<smVars, exVars>>

NextMinMax == min_out \/ max_out \/ ReduceStep \/ Project

SpecMinMax == InitMinMax /\ [][NextMinMax]_vars

\* ------------------------------------------------------------------------
\* Claims about the indexed min/max reduction
\* ------------------------------------------------------------------------
\* the elements of slice p of the input, indexed from 0
SliceOfSelf(p) ==
    [i \in 0 .. (DimSize(self.sizes, dim) - 1) |->
        self.data[SliceOffset(self.sizes, dim, p, i)]]

\* the extreme of a slice and the first index holding it, NaN dominating
ExpectedExtreme(o, s) ==
    LET nans == {i \in DOMAIN s : IsNaN(s[i])}
        m == IF o = "min" THEN MinOfSet({s[i] : i \in DOMAIN s})
             ELSE MaxOfSet({s[i] : i \in DOMAIN s})
    IN IF nans /= {}
       THEN [first |-> NaN, second |-> MinOfSet(nans)]
       ELSE [first |-> m, second |-> MinOfSet({i \in DOMAIN s : s[i] = m})]

\* C1: for every non-empty slice, once all its (value, index) pairs have been
\* folded with the MIN (MAX) policy from the identity accumulator, the
\* accumulator holds the true minimum (maximum) and the smallest index
\* attaining it, or NaN and the smallest NaN index if the slice holds a NaN;
\* the returned values and indices are those accumulators.
C1_FoldYieldsExtremeAndFirstIndex ==
    (path = "kernel" /\ pc \in {"reducing", "returned"}) =>
        \A p \in DOMAIN acc :
            /\ seen[p] = 0 .. (DimSize(self.sizes, dim) - 1) =>
                   acc[p] = ExpectedExtreme(op, SliceOfSelf(p))
            /\ pc = "returned" =>
                   /\ values.data[p + 1] = ExpectedExtreme(op, SliceOfSelf(p)).first
                   /\ indices.data[p + 1] = ExpectedExtreme(op, SliceOfSelf(p)).second

\* C1 witness: indexed max over [2, 0, 2] returned value 2 at index 0, and an
\* indexed min over a slice with two NaNs is possible as well
C1_Witness ==
    /\ pc = "returned"
    /\ path = "kernel"
    /\ op = "max"
    /\ self.sizes = <<3>>
    /\ self.data = <<2, 0, 2>>
    /\ values.data = <<2>>
    /\ indices.data = <<0>>

\* C2: min/max on a complex tensor always ends in a check failure, whatever
\* the number of elements, and no reduction kernel is launched.
C2_ComplexAlwaysFails ==
    (pc /= "idle" /\ self.dtype = "complex") => (pc = "failed" /\ ~launched)

\* C3: when the complex-dtype check fails, neither output tensor has been
\* resized or written.
C3_NoPartialExecutionOnComplex ==
    (pc = "failed" /\ failure = "complex") =>
        /\ ~values.resized /\ ~values.written
        /\ ~indices.resized /\ ~indices.written

SmShapes ==
    {<< >>} \cup {<<a>> : a \in 0 .. SmMaxDim}
    \cup {s \in {<<a, b>> : a \in 0 .. SmMaxDim, b \in 0 .. SmMaxDim} :
             s[1] * s[2] <= SmMaxNumel}

\* [B, H, T, T] inputs of the attention masks
AttnShapes == {<<1, 1, t, t>> : t \in {u \in 1 .. SmMaxDim : u * u <= SmMaxNumel}}

\* memory layouts: contiguous, or the row-sliced view x[::2]
Layouts(sizes) ==
    IF Len(sizes) = 2 /\ sizes[1] >= 2 /\ Numel(sizes) > 0
    THEN {"contiguous", "rowskip"} ELSE {"contiguous"}

\* a tensor of the given layout whose elements are data in row-major order;
\* the storage between the rows of a row-sliced view holds gap
MkTensor(dtype, sizes, layout, data, gap, start) ==
    LET strides == IF layout = "rowskip" THEN RowSkipStrides(sizes)
                   ELSE ContigStrides(sizes)
        at(k) == OffsetOf(k - 1, sizes, strides, Len(sizes)) + 1
        elems == 1 .. Numel(sizes)
    IN [dtype |-> dtype, sizes |-> sizes, strides |-> strides,
        storage |-> IF layout = "rowskip"
                    THEN [q \in 1 .. StorageLen(sizes, strides) |->
                            IF \E k \in elems : at(k) = q
                            THEN data[CHOOSE k \in elems : at(k) = q]
                            ELSE gap]
                    ELSE data,
        start |-> start]

DataOf(sizes) == [1 .. Numel(sizes) -> SmValues]

ZeroData(sizes) == [k \in 1 .. Numel(sizes) |-> 0]

MaskDataOf(sizes) == [1 .. Numel(sizes) -> BOOLEAN]

NoneMasked(sizes) == [k \in 1 .. Numel(sizes) |-> FALSE]

\* the rank after a 0-dim tensor is viewed as 1-dim
Rank1(sizes) == IF Len(sizes) = 0 THEN 1 ELSE Len(sizes)

\* an optional axis: absent (the last axis), or an axis before the last
OptDims(sizes) == {None} \cup {Some(d) : d \in 0 .. Rank1(sizes) - 2}

\* axes including the negative ones and one past each end
AnyDims(sizes) == (0 - Rank1(sizes) - 1) .. Rank1(sizes)

\* environments of the calls that vary the data
DataEnvs ==
    {[dev_simd |-> SIMD16, big |-> b, eng |-> e, blocked |-> FALSE] :
        b \in BOOLEAN, e \in {"BASIC", "ONEDNN"}}

\* environments of the calls that vary the arguments' metadata
MetaEnvs ==
    {[dev_simd |-> SIMD32, big |-> FALSE, eng |-> e, blocked |-> l] :
        e \in {"BASIC", "ONEDNN"}, l \in BOOLEAN}

\* a different shape of the same rank, for mismatched masks
OtherShape(sizes) ==
    IF Len(sizes) = 0 THEN <<2>>
    ELSE [k \in 1 .. Len(sizes) |-> IF k = Len(sizes) THEN sizes[k] + 1 ELSE sizes[k]]

\* valid axes of a tensor, as the plain entry points take them (0-dim tensors
\* are viewed as 1-dim)
OkDims(sizes) == 0 .. Rank1(sizes) - 1

\* shapes of the second operand that broadcast to the first
BroadcastShapes(sizes) ==
    {sizes} \cup (IF Len(sizes) >= 1 THEN {<<sizes[Len(sizes)]>>, <<1>>} ELSE {})

\* ... and shapes that do not: a longer last axis, an empty axis
OtherShapes(sizes) ==
    BroadcastShapes(sizes)
    \cup (IF Len(sizes) >= 1 /\ sizes[Len(sizes)] /= 1 THEN {<<0>>} ELSE {})
    \cup (IF Len(sizes) >= 1 /\ sizes[Len(sizes)] >= 2
          THEN {<<sizes[Len(sizes)] + 1>>} ELSE {})

\* the sizes a tensor is asked to be viewed as
ViewShapes(sizes) ==
    {sizes, <<Numel(sizes)>>, <<1, Numel(sizes)>>, <<Numel(sizes), 1>>}
    \cup (IF Len(sizes) = 2 THEN {<<sizes[2], sizes[1]>>} ELSE {})

ScaleValues == {1, 2}

\* ------------------------------------------------------------------------
\* Softmax family: one action per exposed entry point.  A call runs to its
\* end: it returns, or an exception or undefined behaviour leaves it.  Each
\* entry point is called with tensors whose data varies (float, valid axis)
\* and with tensors whose metadata varies (dtypes, axes, shapes, engines).
\* ------------------------------------------------------------------------
Return(c, r) ==
    /\ call' = c
    /\ result' = r
    /\ UNCHANGED <<mmVars, exVars>>

Do_masked_softmax(c) ==
    Return(c, masked_softmax(c.input, c.mask, c.dim, c.mask_type, c.env))

Call_masked_softmax ==
    /\ result.status = "idle"
    /\ \/ \E s \in SmShapes :
            \E lay \in Layouts(s), d \in DataOf(s), m \in MaskDataOf(s),
               dd \in OptDims(s), st \in {0, 1}, e \in DataEnvs :
               \E c \in
                 {[entry |-> "masked_softmax",
                    input |-> MkTensor("float", s, lay, d, 0, st),
                    mask |-> MkTensor("bool", s, "contiguous", m, FALSE, 0),
                    dim |-> dd, mask_type |-> Some(2), env |-> e]} :
                 Do_masked_softmax(c)
       \/ \E s \in AttnShapes :
            \E ms \in {<<1, <<1, t>>>> : t \in 1 .. SmMaxDim}
                      \cup {<<0, <<t, t>>>> : t \in 1 .. SmMaxDim} :
               \E d \in DataOf(s), m \in MaskDataOf(ms[2]), dd \in {None, Some(2)},
                  e \in DataEnvs :
                  \E c \in
                    {[entry |-> "masked_softmax",
                       input |-> MkTensor("float", s, "contiguous", d, 0, 0),
                       mask |-> MkTensor("bool", ms[2], "contiguous", m, FALSE, 0),
                       dim |-> dd, mask_type |-> Some(ms[1]), env |-> e]} :
                    Do_masked_softmax(c)
       \/ \E s \in SmShapes :
            \E dt \in {"float", "long"}, mdt \in {"bool", "long"},
               ms \in {s, OtherShape(s)},
               dd \in {None} \cup {Some(d) : d \in AnyDims(s)},
               mt \in {None, Some(0), Some(1), Some(2), Some(3)},
               e \in MetaEnvs :
               \E c \in
                 {[entry |-> "masked_softmax",
                    input |-> MkTensor(dt, s, "contiguous", ZeroData(s), 0, 0),
                    mask |-> MkTensor(mdt, ms, "contiguous", NoneMasked(ms), FALSE, 0),
                    dim |-> dd, mask_type |-> mt, env |-> e]} :
                 Do_masked_softmax(c)

Do_masked_softmax_backward(c) ==
    Return(c, masked_softmax_backward(c.grad, c.output, c.mask, c.dim, c.env))

Call_masked_softmax_backward ==
    /\ result.status = "idle"
    /\ \/ \E s \in SmShapes :
            \E g \in DataOf(s), o \in DataOf(s), m \in MaskDataOf(s),
               dd \in OptDims(s), st \in {0, 1}, b \in BOOLEAN :
               \E c \in
                 {[entry |-> "masked_softmax_backward",
                    grad |-> MkTensor("float", s, "contiguous", g, 0, st),
                    output |-> MkTensor("float", s, "contiguous", o, 0, 0),
                    mask |-> MkTensor("bool", s, "contiguous", m, FALSE, 0),
                    dim |-> dd,
                    env |-> [dev_simd |-> SIMD16, big |-> b, eng |-> "BASIC",
                             blocked |-> FALSE]]} :
                 Do_masked_softmax_backward(c)
       \/ \E s \in SmShapes :
            \E dt \in {"float", "long"}, mdt \in {"bool", "long"},
               ms \in {s, OtherShape(s)}, lay \in Layouts(s),
               dd \in {None} \cup {Some(d) : d \in AnyDims(s)},
               e \in MetaEnvs :
               \E c \in
                 {[entry |-> "masked_softmax_backward",
                    grad |-> MkTensor(dt, s, lay, ZeroData(s), 0, 0),
                    output |-> MkTensor(dt, s, lay, ZeroData(s), 0, 0),
                    mask |-> MkTensor(mdt, ms, "contiguous", NoneMasked(ms), FALSE, 0),
                    dim |-> dd, env |-> e]} :
                 Do_masked_softmax_backward(c)

\* the arguments of a plain forward call
ForwardCall(name, LogSoftMax) ==
    \/ \E s \in SmShapes :
         \E lay \in Layouts(s), d \in DataOf(s), dd \in OkDims(s), st \in {0, 1},
            ost \in {0, 1}, e \in DataEnvs :
            \E c \in {[entry |-> name,
                      input |-> MkTensor("float", s, lay, d, 0, st),
                      dim |-> dd, half_to_float |-> FALSE, output_start |-> ost,
                      env |-> e]} :
            Return(c, IF LogSoftMax
                         THEN log_softmax_out(c.input, c.dim, c.half_to_float,
                                              c.output_start, c.env)
                         ELSE softmax_out(c.input, c.dim, c.half_to_float,
                                          c.output_start, c.env))
    \/ \E s \in SmShapes :
         \E lay \in Layouts(s), dt \in {"float", "half", "long"},
            dd \in AnyDims(s), h \in BOOLEAN, e \in MetaEnvs :
            \E c \in {[entry |-> name,
                      input |-> MkTensor(dt, s, lay, ZeroData(s), 0, 0),
                      dim |-> dd, half_to_float |-> h, output_start |-> 0,
                      env |-> e]} :
            Return(c, IF LogSoftMax
                         THEN log_softmax_out(c.input, c.dim, c.half_to_float,
                                              c.output_start, c.env)
                         ELSE softmax_out(c.input, c.dim, c.half_to_float,
                                          c.output_start, c.env))

Call_softmax == result.status = "idle" /\ ForwardCall("softmax", FALSE)

Call_log_softmax == result.status = "idle" /\ ForwardCall("log_softmax", TRUE)

\* the arguments of a plain backward call
BackwardCall(name, LogSoftMax) ==
    \/ \E s \in SmShapes :
         \E lay \in Layouts(s), g \in DataOf(s), o \in DataOf(s), dd \in OkDims(s),
            st \in {<<0, 0, 0>>, <<1, 0, 0>>, <<0, 1, 0>>, <<0, 0, 1>>},
            b \in BOOLEAN, l \in BOOLEAN :
            \E c \in {[entry |-> name,
                      grad_output |-> MkTensor("float", s, lay, g, 0, st[1]),
                      output |-> MkTensor("float", s, "contiguous", o, 0, st[2]),
                      dim |-> dd, input_dtype |-> "float", gradin_start |-> st[3],
                      env |-> [dev_simd |-> SIMD16, big |-> b, eng |-> "BASIC",
                               blocked |-> l]]} :
            Return(c, IF LogSoftMax
                         THEN log_softmax_backward_data_out(
                                  c.grad_output, c.output, c.dim, c.input_dtype,
                                  c.gradin_start, c.env)
                         ELSE softmax_backward_data_out(
                                  c.grad_output, c.output, c.dim, c.input_dtype,
                                  c.gradin_start, c.env))
    \/ \E s \in SmShapes :
         \E lay \in Layouts(s), dt \in {"float", "half", "long"},
            idt \in {"float", "half"}, dd \in AnyDims(s), e \in MetaEnvs :
            \E c \in {[entry |-> name,
                      grad_output |-> MkTensor(dt, s, lay, ZeroData(s), 0, 0),
                      output |-> MkTensor(dt, s, lay, ZeroData(s), 0, 0),
                      dim |-> dd, input_dtype |-> idt, gradin_start |-> 0,
                      env |-> e]} :
            Return(c, IF LogSoftMax
                         THEN log_softmax_backward_data_out(
                                  c.grad_output, c.output, c.dim, c.input_dtype,
                                  c.gradin_start, c.env)
                         ELSE softmax_backward_data_out(
                                  c.grad_output, c.output, c.dim, c.input_dtype,
                                  c.gradin_start, c.env))

Call_softmax_backward == result.status = "idle" /\ BackwardCall("softmax_backward", FALSE)

Call_log_softmax_backward ==
    result.status = "idle" /\ BackwardCall("log_softmax_backward", TRUE)

Do_add_softmax(c) ==
    Return(c, add_softmax(c.input, c.other, c.alpha, c.dim, c.dtype, c.env))

Call_add_softmax ==
    /\ result.status = "idle"
    /\ \/ \E s \in SmShapes :
            \E os \in BroadcastShapes(s) :
               \E lay \in Layouts(s), olay \in Layouts(os), d \in DataOf(s),
                  od \in DataOf(os), a \in ScaleValues, dd \in OkDims(s),
                  e \in DataEnvs :
                  \E c \in
                    {[entry |-> "add_softmax",
                       input |-> MkTensor("float", s, lay, d, 0, 0),
                       other |-> MkTensor("float", os, olay, od, 0, 0),
                       alpha |-> a, dim |-> dd, dtype |-> None, env |-> e]} :
                    Do_add_softmax(c)
       \/ \E s \in SmShapes :
            \E os \in OtherShapes(s) :
               \E lay \in Layouts(s), dt \in {"float", "long"},
                  odt \in {"float", "half"}, cdt \in {None, Some("half")},
                  dd \in AnyDims(s), e \in MetaEnvs :
                  \E c \in
                    {[entry |-> "add_softmax",
                       input |-> MkTensor(dt, s, lay, ZeroData(s), 0, 0),
                       other |-> MkTensor(odt, os, "contiguous", ZeroData(os), 0, 0),
                       alpha |-> 1, dim |-> dd, dtype |-> cdt, env |-> e]} :
                    Do_add_softmax(c)

Do_add_view_softmax(c) ==
    Return(c, add_view_softmax(c.input, c.other, c.alpha, c.sizes, c.dim,
                               c.dtype, c.env))

Call_add_view_softmax ==
    /\ result.status = "idle"
    /\ \/ \E s \in SmShapes :
            \E os \in BroadcastShapes(s), vs \in ViewShapes(s) :
               \E lay \in Layouts(s), d \in DataOf(s), od \in DataOf(os),
                  a \in ScaleValues, dd \in OkDims(vs),
                  e \in {x \in DataEnvs : x.eng = "BASIC"} :
                  \E c \in
                    {[entry |-> "add_view_softmax",
                       input |-> MkTensor("float", s, lay, d, 0, 0),
                       other |-> MkTensor("float", os, "contiguous", od, 0, 0),
                       alpha |-> a, sizes |-> vs, dim |-> dd, dtype |-> None,
                       env |-> e]} :
                    Do_add_view_softmax(c)
       \/ \E s \in SmShapes :
            \E os \in OtherShapes(s) :
               \E lay \in Layouts(s), dt \in {"float", "long"},
                  odt \in {"float", "half"}, cdt \in {None, Some("half")},
                  vs \in ViewShapes(s) \cup {<< >>, <<Numel(s) + 1>>},
                  dd \in (0 - 2) .. 2, e \in MetaEnvs :
                  \E c \in
                    {[entry |-> "add_view_softmax",
                       input |-> MkTensor(dt, s, lay, ZeroData(s), 0, 0),
                       other |-> MkTensor(odt, os, "contiguous", ZeroData(os), 0, 0),
                       alpha |-> 1, sizes |-> vs, dim |-> dd, dtype |-> cdt,
                       env |-> e]} :
                    Do_add_view_softmax(c)

InitSoftmax == InitMinMax

NextMaskedForward == Call_masked_softmax

SpecMaskedForward == InitSoftmax /\ [][NextMaskedForward]_vars

NextMaskedBackward == Call_masked_softmax_backward

SpecMaskedBackward == InitSoftmax /\ [][NextMaskedBackward]_vars

NextMasked == Call_masked_softmax \/ Call_masked_softmax_backward

SpecMasked == InitSoftmax /\ [][NextMasked]_vars

NextSoftmax ==
    \/ Call_softmax
    \/ Call_log_softmax
    \/ Call_softmax_backward
    \/ Call_log_softmax_backward

SpecSoftmax == InitSoftmax /\ [][NextSoftmax]_vars

NextAdd == Call_add_softmax \/ Call_add_view_softmax

SpecAdd == InitSoftmax /\ [][NextAdd]_vars

\* ------------------------------------------------------------------------
\* Claims about the softmax family
\* ------------------------------------------------------------------------
\* the sizes of a tensor once a 0-dim tensor is viewed as 1-dim
Sizes1(t) == IF Len(t.sizes) = 0 THEN <<1>> ELSE t.sizes

\* the 1-based row-major positions of the slice along axis d through k
AxisSlice(sizes, d, k) ==
    LET inner == InnerSize(sizes, d)
        n == sizes[d + 1]
        o == (k - 1) \div (n * inner)
        c == (k - 1) % inner
    IN {o * n * inner + i * inner + c + 1 : i \in 0 .. n - 1}

\* the softmax axis of a masked call: dim, or the last axis when absent
MaskedAxis(c, sizes) ==
    IF c.dim.has_value THEN maybe_wrap_dim(c.dim.value, Len(sizes))
    ELSE Len(sizes) - 1

\* the mask value that belongs to position k (1-based, row-major) of the
\* tensor t of a masked call: the mask element itself when the shapes agree,
\* mask[b, j] for a [B, T] padding mask and mask[i, j] for a [T, T] mask of
\* a [B, H, T, T] tensor
MaskValueAt(c, t, k) ==
    IF c.mask.sizes = t.sizes THEN c.mask.storage[k]
    ELSE IF c.mask_type.value = 1
    THEN c.mask.storage[((k - 1) \div (t.sizes[2] * t.sizes[3] * t.sizes[4]))
                           * c.mask.sizes[2]
                        + ((k - 1) % c.mask.sizes[2]) + 1]
    ELSE c.mask.storage[((k - 1) % Numel(c.mask.sizes)) + 1]

\* a forward output that is the number 0
IsZeroOut(v) == Len(v) = 2 /\ v[1] = 0 /\ v[2] /= 0

MaskedForwardReturned == call.entry = "masked_softmax" /\ result.status = "ok"

MaskedBackwardReturned ==
    /\ call.entry = "masked_softmax_backward"
    /\ result.status = "ok"
    /\ Len(result.out) > 0

\* the sum of output * gradOutput over the unmasked positions of the slice
\* through k
UnmaskedGradSum(c, d, k) ==
    LET prod == [j \in 1 .. Numel(c.grad.sizes) |->
                    c.output.storage[j] * c.grad.storage[j]]
    IN FoldSum(prod,
               {j \in AxisSlice(Sizes1(c.grad), d, k) : ~MaskValueAt(c, c.grad, j)}, 0)

\* C6: in masked-softmax backward the gradInput written at every masked
\* position is 0, and the masked positions' output * gradOutput terms are left
\* out of the slice's gradient sum: an unmasked position gets
\* output * (gradOutput - sum over the unmasked positions of its slice); on
\* the fused kernel and on the masked_fill(mask, 0) fallback alike.
C6_MaskedGradientZeroAndExcluded ==
    MaskedBackwardReturned =>
        LET d == MaskedAxis(call, Sizes1(call.grad))
        IN \A k \in 1 .. Len(result.out) :
              IF MaskValueAt(call, call.grad, k)
              THEN result.out[k] = 0
              ELSE result.out[k] =
                      call.output.storage[k]
                      * (call.grad.storage[k] - UnmaskedGradSum(call, d, k))

\* C6 witness: a masked position whose output * gradOutput is not 0 shares a
\* slice with an unmasked position of non-zero output; the masked position
\* got 0 and the unmasked one a gradient without the masked term
C6_Witness ==
    /\ MaskedBackwardReturned
    /\ \E k \in 1 .. Len(result.out) :
          /\ MaskValueAt(call, call.grad, k)
          /\ call.output.storage[k] * call.grad.storage[k] /= 0
          /\ result.out[k] = 0
          /\ \E j \in AxisSlice(Sizes1(call.grad),
                                MaskedAxis(call, Sizes1(call.grad)), k) :
                /\ ~MaskValueAt(call, call.grad, j)
                /\ call.output.storage[j] /= 0
                /\ result.out[j] =
                      call.output.storage[j]
                      * (call.grad.storage[j]
                         - UnmaskedGradSum(call, MaskedAxis(call, Sizes1(call.grad)), j))

\* a mask that is not boolean, or has the rank of the tensor but other sizes
BadMask(c) ==
    \/ c.mask.dtype /= "bool"
    \/ /\ c.entry = "masked_softmax"
       /\ Len(c.mask.sizes) = Len(c.input.sizes)
       /\ c.mask.sizes /= c.input.sizes
    \/ /\ c.entry = "masked_softmax_backward"
       /\ c.mask.sizes /= c.grad.sizes

\* C7: every masked-softmax call, forward or backward, whose mask is not
\* boolean or whose mask shape does not match the input / grad shape ends in
\* a check failure raised before any kernel launch and before a result is
\* returned.
C7_BadMaskFailsBeforeLaunch ==
    (call.entry \in {"masked_softmax", "masked_softmax_backward"} /\ BadMask(call)) =>
        (result.status = "check_failure" /\ result.launches = << >>)

\* a plain call that asks for the half-to-float conversion
RequestsHalfToFloat(c) ==
    \/ c.entry \in {"softmax", "log_softmax"} /\ c.half_to_float
    \/ /\ c.entry \in {"softmax_backward", "log_softmax_backward"}
       /\ c.grad_output.dtype /= c.input_dtype

\* C8: every softmax / log-softmax forward or backward call that requests the
\* half-to-float conversion ends in a check failure before any kernel or
\* library softmax is executed, whichever compute engine is selected.
C8_HalfToFloatFailsBeforeExecution ==
    RequestsHalfToFloat(call) =>
        (result.status = "check_failure" /\ result.launches = << >>)

AddReference(c) ==
    at_softmax_of_add(c.input, c.other, c.alpha,
                      IF c.entry = "add_view_softmax" THEN Some(c.sizes) ELSE None,
                      c.dim, c.dtype, c.env)

\* C10: for every pair of operands, alpha and axis, add_softmax and
\* add_view_softmax end as the unfused reference
\* softmax(add(input, other, alpha)[.view(sizes)], dim) ends, with the same
\* returned values.
C10_FusedAddEqualsReference ==
    call.entry \in {"add_softmax", "add_view_softmax"} =>
        /\ result.status = AddReference(call).status
        /\ result.out = AddReference(call).out

\* ------------------------------------------------------------------------
\* Chunked reduction.  dpcpp_reduce_kernel gives every work-item a chunk of
\* the slice: the work-item folds its chunk with reduce from the identity
\* accumulator using chunk-relative indices, shifts the partial with
\* translate_idx by the base offset of the chunk, and the partials are
\* merged with combine, in the order and tree shape the schedule gives.  A
\* work-item whose chunk is empty contributes the identity accumulator.
\* ------------------------------------------------------------------------
\* longest slice of the chunked reduction
MaxSliceLen == 3
\* largest number of partial accumulators of one reduction
MaxParts == 3

\* the slices reduced: their elements are the two bound values, which are
\* the values of the identity accumulators, and NaN
Slices == UNION {[1 .. n -> {lower_bound, upper_bound, NaN}] : n \in 1 .. MaxSliceLen}

\* the chunk that starts at base b when the slice of n elements is cut at cuts
ChunkAt(n, cuts, b) ==
    [base |-> b, len |-> MinOfSet({c \in cuts \cup {n} : c > b}) - b]

\* the partial accumulator of a chunk before its first element is folded;
\* members names the chunks merged into the partial
NewPart(o, kind, c) ==
    [members |-> {<<c.base, kind>>}, base |-> c.base, len |-> c.len,
     shifted |-> FALSE, acc |-> ident(o)]

RECURSIVE FoldChunk(_, _, _, _)
\* the fold of the first k elements of the chunk at base, with reduce and
\* chunk-relative indices, from the identity accumulator
FoldChunk(o, xs, base, k) ==
    IF k = 0 THEN ident(o)
    ELSE reduce(o, FoldChunk(o, xs, base, k - 1), xs[base + k], k - 1)

\* the work is split: one partial per chunk, and one per empty chunk
StartPartition ==
    /\ pParts = {}
    /\ \E o \in {"min", "max"}, xs \in Slices :
         \E cuts \in SUBSET (1 .. Len(xs) - 1), empties \in SUBSET (0 .. Len(xs)) :
            /\ Cardinality(cuts) + 1 + Cardinality(empties) <= MaxParts
            /\ pOp' = o
            /\ pSlice' = xs
            /\ pParts' =
                  {NewPart(o, "chunk", ChunkAt(Len(xs), cuts, b)) : b \in {0} \cup cuts}
                  \cup {NewPart(o, "empty", [base |-> b, len |-> 0]) : b \in empties}
    /\ UNCHANGED <<gmVars, mmVars, smVars, dsVars, wgVars>>

\* a work-item folds its chunk, reduce(acc, val, idx) with idx relative to
\* the chunk, and shifts the partial: translate_idx(acc, base)
ChunkFold ==
    /\ \E c \in pParts :
         /\ ~c.shifted
         /\ pParts' = (pParts \ {c}) \cup
               {[c EXCEPT !.acc = translate_idx(FoldChunk(pOp, pSlice, c.base, c.len),
                                                c.base),
                          !.shifted = TRUE]}
    /\ UNCHANGED <<gmVars, mmVars, smVars, dsVars, wgVars, pOp, pSlice>>

\* two shifted partials are merged: combine(a, b), either one first
ChunkCombine ==
    /\ \E a \in pParts, b \in pParts :
         /\ a /= b
         /\ a.shifted /\ b.shifted
         /\ pParts' = (pParts \ {a, b}) \cup
               {[members |-> a.members \cup b.members, base |-> 0, len |-> 0,
                 shifted |-> TRUE, acc |-> combine(pOp, a.acc, b.acc)]}
    /\ UNCHANGED <<gmVars, mmVars, smVars, dsVars, wgVars, pOp, pSlice>>

NextPartition == StartPartition \/ ChunkFold \/ ChunkCombine

SpecPartition == InitMinMax /\ [][NextPartition]_vars

\* ------------------------------------------------------------------------
\* Claims about the chunked reduction
\* ------------------------------------------------------------------------
\* every partial has been shifted and merged into one
PartitionDone == Cardinality(pParts) = 1 /\ \A c \in pParts : c.shifted

\* the accumulator the merge ended with
FinalPart == CHOOSE c \in pParts : TRUE

RECURSIVE FoldTo(_, _, _)
\* one left-to-right fold of the first k elements of xs from the identity
FoldTo(o, xs, k) ==
    IF k = 0 THEN ident(o) ELSE reduce(o, FoldTo(o, xs, k - 1), xs[k], k - 1)

\* C11: the min/max result does not depend on the partition of the slice or
\* on the merge order: folding every chunk with chunk-relative indices,
\* shifting each partial by its chunk's base and merging the partials with
\* combine in any order or tree shape gives the (value, index) of one
\* left-to-right fold of the whole slice; on the way reduce(acc, v, i) is
\* combine(acc, (v, i)), and combine is commutative on partials of distinct
\* index.
C11_PartitionAndMergeOrderIrrelevant ==
    /\ PartitionDone => FinalPart.acc = FoldTo(pOp, pSlice, Len(pSlice))
    /\ \A c \in pParts : \A k \in 1 .. Len(pSlice) :
          reduce(pOp, c.acc, pSlice[k], k - 1)
             = combine(pOp, c.acc, [first |-> pSlice[k], second |-> k - 1])
    /\ \A a \in pParts, b \in pParts :
          (a.shifted /\ b.shifted /\ a.acc.second /= b.acc.second) =>
             combine(pOp, a.acc, b.acc) = combine(pOp, b.acc, a.acc)

\* C11 witness: three one-element chunks were merged and the extreme came
\* from the last chunk, so its index is the shifted one
C11_Witness ==
    /\ PartitionDone
    /\ FinalPart.members = {<<0, "chunk">>, <<1, "chunk">>, <<2, "chunk">>}
    /\ FinalPart.acc.second = 2
    /\ FinalPart.acc = FoldTo(pOp, pSlice, Len(pSlice))

\* C12: seeding with the identity accumulator never changes the outcome of a
\* non-empty slice: with identity partials that consumed no element merged
\* in, shifted or not, and with every element equal to the bound value, the
\* final value is the true extreme and the final index the smallest index
\* attaining it.
C12_IdentityNeverChangesOutcome ==
    PartitionDone =>
        FinalPart.acc =
            ExpectedExtreme(pOp, [i \in 0 .. Len(pSlice) - 1 |-> pSlice[i + 1]])

\* C12 witness: every element of the slice is the bound value, an identity
\* partial shifted by a base offset above 0 was merged in, and the result
\* is the bound value at index 0
C12_Witness ==
    /\ PartitionDone
    /\ Len(pSlice) >= 2
    /\ \A k \in 1 .. Len(pSlice) : pSlice[k] = ident(pOp).first
    /\ \E b \in 1 .. Len(pSlice) : <<b, "empty">> \in FinalPart.members
    /\ FinalPart.acc = [first |-> ident(pOp).first, second |-> 0]

\* ------------------------------------------------------------------------
\* Launch geometry.  What a softmax call launches depends only on the dtype,
\* the (outer, reduced, inner) extents, the alignment of the base pointers,
\* the index width and the device; the calls below carry these and no data,
\* so that the reduced extent can be as long as the dispatch thresholds.
\* ------------------------------------------------------------------------
\* every reduced extent up to MaxSmallDim is tried ...
MaxSmallDim == 40

\* ... and the extents next to the powers of two up to 2^MaxDimExp
MaxDimExp == 14

DimSizes ==
    (1 .. MaxSmallDim)
    \cup {Pow2(e) + r : e \in 6 .. MaxDimExp, r \in {0 - 8, 0, 1}}

\* one row-group, and enough rows for get_wgroup_size to pack two per group
OuterSizes == {3, 4 * MIN_WG_NUM}

\* max_group_size * INNER_LOOP >= dim_size
fits_one_group_Always(INNER_LOOP, dim_size) == TRUE
fits_one_group(INNER_LOOP, dim_size) == maxWGSize * INNER_LOOP >= dim_size

\* the launch of a kernel with its execution shape
Geometry(strategy, kernel, vec_size, SIMD, outer_loop, cols, rows, sub_group_num) ==
    [strategy |-> strategy, kernel |-> kernel, vec_size |-> vec_size,
     SIMD |-> SIMD, outer_loop |-> outer_loop, local_size |-> cols,
     local_size_row |-> rows, sub_group_num |-> sub_group_num]

\* dispatch_softmax_forward_kernel, dispatch_softmax_forward_add_kernel and
\* dispatch_softmax_backward_kernel: get_wgroup_size<SIMD, vec_size, NUM>
RegisterLaunch(kernel, vec_size, SIMD, NUM, dim_size, outer_size) ==
    LET wg == get_wgroup_size(SIMD, vec_size, NUM, dim_size, outer_size)
    IN Geometry("register", kernel, vec_size, SIMD, NUM, wg.local_size_col,
                wg.local_size_row, wg.sub_group_num)

\* softmax_forward_kernel and softmax_backward_kernel: one work-group per row
StreamingLaunch(kernel, vec_size, dim_size) ==
    LET n == CeilDiv(dim_size, vec_size)
    IN Geometry("streaming", kernel, vec_size, 0, 0,
                IF n < maxWGSize THEN n ELSE maxWGSize, 1, 0)

\* spatial_softmax_forward and spatial_softmax_backward_kernel
SpatialLaunch(kernel, vec_size, dim_size, inner_size, outer_size) ==
    LET wg == get_wgroup_size_spatial(vec_size, outer_size, dim_size, inner_size)
    IN Geometry("spatial", kernel, vec_size, 0, 0, wg.local_size, wg.block_row, 0)

\* a primitive of the library, or an elementwise framework operator
OtherLaunch(strategy, kernel) == Geometry(strategy, kernel, 0, 0, 0, 0, 0, 0)

\* SpatialSoftMaxForward: the launch it makes
ForwardLaunch(dtype, inner_size, dim_size, outer_size, can_use_32bit_index, input_start, output_start, dev_simd) ==
    LET mvs == max_vec_size(dtype)
        INNER_LOOP == mvs * 2
        c == ForwardConfig(dev_simd, dtype, input_start, output_start, dim_size)
    IN IF inner_size = 1
       THEN IF can_use_32bit_index /\ fits_one_group(INNER_LOOP, dim_size)
            THEN RegisterLaunch("dispatch_softmax_forward_kernel", c.vec_size,
                                c.SIMD, c.outer_loop, dim_size, outer_size)
            ELSE StreamingLaunch("softmax_forward_kernel",
                                 IF input_start = output_start THEN mvs ELSE 1,
                                 dim_size)
       ELSE SpatialLaunch("spatial_softmax_forward",
                          IF input_start = output_start /\ inner_size % mvs = 0
                          THEN mvs ELSE 1,
                          dim_size, inner_size, outer_size)

\* dispatch_softmax_backward_kernel: NUM = INNER_LOOP / vec_size * (SIMD32 / SIMD)
BackwardNUM_One(INNER_LOOP, vec_size, SIMD) == 1
BackwardNUM(INNER_LOOP, vec_size, SIMD) == (INNER_LOOP \div vec_size) * (SIMD32 \div SIMD)

\* SpatialSoftMaxBackward: the launch it makes
BackwardLaunch(dtype, inner_size, dim_size, outer_size, can_use_32bit_index, gradin_start, output_start, gradoutput_start, dev_simd) ==
    LET mvs == max_vec_size(dtype)
        INNER_LOOP == mvs
        same_start == gradin_start = output_start /\ gradin_start = gradoutput_start
        c == BackwardConfig(dev_simd, dtype, gradin_start, output_start,
                            gradoutput_start, dim_size)
    IN IF inner_size = 1
       THEN IF can_use_32bit_index /\ fits_one_group(INNER_LOOP, dim_size)
            THEN RegisterLaunch("dispatch_softmax_backward_kernel", c.vec_size, c.SIMD,
                                BackwardNUM(INNER_LOOP, c.vec_size, c.SIMD),
                                dim_size, outer_size)
            ELSE StreamingLaunch("softmax_backward_kernel",
                                 IF same_start THEN mvs ELSE 1, dim_size)
       ELSE SpatialLaunch("spatial_softmax_backward_kernel",
                          IF same_start /\ inner_size % mvs = 0 THEN mvs ELSE 1,
                          dim_size, inner_size, outer_size)

\* _softmax_out and _log_softmax_out on a contiguous floating tensor:
\* the library primitive when its engine is chosen, else host_softmax
SoftmaxLaunches(LogSoftMax, eng, dtype, inner_size, dim_size, outer_size, can_use_32bit_index, input_start, output_start, dev_simd) ==
    IF ~LogSoftMax /\ eng = "ONEDNN"
    THEN <<OtherLaunch("library", "onednn_softmax")>>
    ELSE <<ForwardLaunch(dtype, inner_size, dim_size, outer_size,
                         can_use_32bit_index, input_start, output_start, dev_simd)>>

\* _softmax_backward_data_out and _log_softmax_backward_data_out on
\* contiguous floating tensors: the library primitive for operands in its
\* blocked layout, else host_softmax_backward
SoftmaxBackwardLaunches(LogSoftMax, blocked, dtype, inner_size, dim_size, outer_size, can_use_32bit_index, gradin_start, output_start, gradoutput_start, dev_simd) ==
    IF ~LogSoftMax /\ blocked
    THEN <<OtherLaunch("library", "onednn_softmax_backward")>>
    ELSE <<BackwardLaunch(dtype, inner_size, dim_size, outer_size,
                          can_use_32bit_index, gradin_start, output_start,
                          gradoutput_start, dev_simd)>>

\* MaskedSoftMaxForward: the fused masked kernel, or masked_fill and softmax
MaskedForwardLaunches(eng, dtype, inner_size, dim_size, outer_size, can_use_32bit_index, input_start, dev_simd) ==
    LET mvs == max_vec_size(dtype)
        INNER_LOOP == mvs * 2
        c == ForwardConfig(dev_simd, dtype, input_start, 0, dim_size)
    IN IF inner_size = 1 /\ can_use_32bit_index /\ fits_one_group(INNER_LOOP, dim_size)
       THEN <<RegisterLaunch("dispatch_softmax_forward_kernel<is_masked>", c.vec_size,
                             c.SIMD, c.outer_loop, dim_size, outer_size)>>
       ELSE <<OtherLaunch("elementwise", "masked_fill")>>
            \o SoftmaxLaunches(FALSE, eng, dtype, inner_size, dim_size, outer_size,
                               can_use_32bit_index, 0, 0, dev_simd)

\* MaskedSoftMaxBackward: the fused masked kernel, or masked_fill and
\* softmax backward
MaskedBackwardLaunches(dtype, inner_size, dim_size, outer_size, can_use_32bit_index, output_start, gradoutput_start, dev_simd) ==
    LET mvs == max_vec_size(dtype)
        INNER_LOOP == mvs
        c == BackwardConfig(dev_simd, dtype, 0, output_start, gradoutput_start, dim_size)
    IN IF inner_size = 1 /\ can_use_32bit_index /\ fits_one_group(INNER_LOOP, dim_size)
       THEN <<RegisterLaunch("dispatch_softmax_backward_kernel<is_masked>", c.vec_size,
                             c.SIMD, BackwardNUM(INNER_LOOP, c.vec_size, c.SIMD),
                             dim_size, outer_size)>>
       ELSE <<OtherLaunch("elementwise", "masked_fill")>>
            \o SoftmaxBackwardLaunches(FALSE, FALSE, dtype, inner_size, dim_size,
                                       outer_size, can_use_32bit_index, 0, 0,
                                       gradoutput_start, dev_simd)

\* add_view_softmax_impl: the fused add kernel, or at::add and softmax
AddLaunches(eng, dtype, inner_size, dim_size, outer_size, can_use_32bit_index, input_start, dev_simd) ==
    LET mvs == max_vec_size(dtype)
        INNER_LOOP == mvs * 2
        c == ForwardConfig(dev_simd, dtype, input_start, 0, dim_size)
    IN IF inner_size = 1 /\ can_use_32bit_index /\ fits_one_group(INNER_LOOP, dim_size)
       THEN <<RegisterLaunch("dispatch_softmax_forward_add_kernel", c.vec_size,
                             c.SIMD, c.outer_loop, dim_size, outer_size)>>
       ELSE <<OtherLaunch("elementwise", "add")>>
            \o SoftmaxLaunches(FALSE, eng, dtype, inner_size, dim_size, outer_size,
                               can_use_32bit_index, 0, 0, dev_simd)

\* the row offset of the vector that work-item lid_col loads, and later
\* stores, in iteration i of the register-resident kernels' loops:
\* i * local_stride + lid_offset, (lid_col + i * local_size) * vec_size
LoadIndex(l, i, lid_col) == i * (l.local_size * l.vec_size) + lid_col * l.vec_size

\* the vectors of one row that the loops reach before index >= dim_size
LoadedIndexes(l, dim_size) ==
    {LoadIndex(l, i, lid_col) : i \in 0 .. l.outer_loop - 1,
                               lid_col \in 0 .. l.local_size - 1}
    \cap (0 .. dim_size - 1)

\* the record of one call: what it was given and what it launched
Dispatched(site, LogSoftMax, route, dtype, inner_size, dim_size, outer_size, can_use_32bit_index, starts, dev_simd, launches) ==
    /\ disp' = [site |-> site, LogSoftMax |-> LogSoftMax, route |-> route,
                dtype |-> dtype, inner_size |-> inner_size, dim_size |-> dim_size,
                outer_size |-> outer_size, can32 |-> can_use_32bit_index,
                starts |-> starts, dev_simd |-> dev_simd, launches |-> launches]
    /\ UNCHANGED <<gmVars, mmVars, smVars, prVars, wgVars>>

\* the inner sizes of the plain calls: the innermost axis, a short inner
\* extent, and one that fills the widest spatial work-group
InnerSizes == {1, 4, 64}

\* softmax / log_softmax forward
Launch_softmax ==
    /\ disp.site = "none"
    /\ \E LogSoftMax \in BOOLEAN, eng \in {"BASIC", "ONEDNN"}, dtype \in FloatingTypes :
      \E inner_size \in InnerSizes, dim_size \in DimSizes, outer_size \in OuterSizes :
        \E can32 \in BOOLEAN, ist \in {0, 1}, ost \in {0, 1}, dev_simd \in {SIMD16, SIMD32} :
          Dispatched("softmax", LogSoftMax, eng, dtype, inner_size, dim_size,
                     outer_size, can32, <<ist, ost>>, dev_simd,
                     SoftmaxLaunches(LogSoftMax, eng, dtype, inner_size, dim_size,
                                     outer_size, can32, ist, ost, dev_simd))

\* softmax / log_softmax backward
Launch_softmax_backward ==
    /\ disp.site = "none"
    /\ \E LogSoftMax \in BOOLEAN, blocked \in BOOLEAN, dtype \in FloatingTypes :
      \E inner_size \in InnerSizes, dim_size \in DimSizes, outer_size \in OuterSizes :
        \E can32 \in BOOLEAN, gist \in {0, 1}, ost \in {0, 1}, gost \in {0, 1},
           dev_simd \in {SIMD16, SIMD32} :
          Dispatched("softmax_backward", LogSoftMax,
                     IF blocked THEN "BLOCKED" ELSE "PLAIN", dtype, inner_size,
                     dim_size, outer_size, can32, <<gist, ost, gost>>, dev_simd,
                     SoftmaxBackwardLaunches(LogSoftMax, blocked, dtype, inner_size,
                                             dim_size, outer_size, can32, gist, ost,
                                             gost, dev_simd))

\* _masked_softmax
Launch_masked_softmax ==
    /\ disp.site = "none"
    /\ \E eng \in {"BASIC", "ONEDNN"}, dtype \in FloatingTypes :
      \E inner_size \in {1, 4}, dim_size \in DimSizes, outer_size \in OuterSizes :
        \E can32 \in BOOLEAN, ist \in {0, 1}, dev_simd \in {SIMD16, SIMD32} :
          Dispatched("masked_softmax", FALSE, eng, dtype, inner_size, dim_size,
                     outer_size, can32, <<ist, 0>>, dev_simd,
                     MaskedForwardLaunches(eng, dtype, inner_size, dim_size,
                                           outer_size, can32, ist, dev_simd))

\* _masked_softmax_backward
Launch_masked_softmax_backward ==
    /\ disp.site = "none"
    /\ \E dtype \in FloatingTypes :
      \E inner_size \in {1, 4}, dim_size \in DimSizes, outer_size \in OuterSizes :
        \E can32 \in BOOLEAN, ost \in {0, 1}, gost \in {0, 1},
           dev_simd \in {SIMD16, SIMD32} :
          Dispatched("masked_softmax_backward", FALSE, "PLAIN", dtype, inner_size,
                     dim_size, outer_size, can32, <<0, ost, gost>>, dev_simd,
                     MaskedBackwardLaunches(dtype, inner_size, dim_size, outer_size,
                                            can32, ost, gost, dev_simd))

\* add_softmax / add_view_softmax
Launch_add_softmax ==
    /\ disp.site = "none"
    /\ \E eng \in {"BASIC", "ONEDNN"}, dtype \in FloatingTypes :
      \E inner_size \in {1, 4}, dim_size \in DimSizes, outer_size \in OuterSizes :
        \E can32 \in BOOLEAN, ist \in {0, 1}, dev_simd \in {SIMD16, SIMD32} :
          Dispatched("add_softmax", FALSE, eng, dtype, inner_size, dim_size,
                     outer_size, can32, <<ist, 0>>, dev_simd,
                     AddLaunches(eng, dtype, inner_size, dim_size, outer_size,
                                 can32, ist, dev_simd))

NextDispatch ==
    \/ Launch_softmax
    \/ Launch_softmax_backward
    \/ Launch_masked_softmax
    \/ Launch_masked_softmax_backward
    \/ Launch_add_softmax

SpecDispatch == InitMinMax /\ [][NextDispatch]_vars

\* ------------------------------------------------------------------------
\* Claims about the launch geometry
\* ------------------------------------------------------------------------
\* the plain softmax / log-softmax calls, forward and backward
PlainSoftmaxCall == disp.site \in {"softmax", "softmax_backward"}

\* INNER_LOOP of the call's direction
InnerLoopOf(d) ==
    IF d.site \in {"softmax_backward", "masked_softmax_backward"}
    THEN max_vec_size(d.dtype) ELSE max_vec_size(d.dtype) * 2

\* the strategy the priority rule names for a call
StrategyByPriority(d) ==
    IF d.inner_size = 1 /\ d.can32 /\ maxWGSize * InnerLoopOf(d) >= d.dim_size
    THEN "register"
    ELSE IF d.inner_size = 1 THEN "streaming" ELSE "spatial"

\* the call is handed to the library: softmax forward with the library's
\* engine chosen, softmax backward with operands in the blocked layout
HandedToLibrary(d) == ~d.LogSoftMax /\ d.route \in {"ONEDNN", "BLOCKED"}

\* C13 as stated: every non-empty softmax / log-softmax forward or backward
\* call launches exactly one of the three strategies, the one the priority
\* rule names
C13_ExactlyOneStrategyByPriority ==
    PlainSoftmaxCall =>
        /\ Len(disp.launches) = 1
        /\ disp.launches[1].strategy = StrategyByPriority(disp)

\* C13 amended: a call not handed to the library launches exactly one of
\* the three strategies, the one the priority rule names; a call handed to
\* the library launches the library primitive and none of the three
C13_OneStrategyUnlessLibrary ==
    PlainSoftmaxCall =>
        /\ Len(disp.launches) = 1
        /\ disp.launches[1].strategy =
              IF HandedToLibrary(disp) THEN "library" ELSE StrategyByPriority(disp)

\* C13 witness: an innermost row one element too long for a work-group
\* is streamed, although 32-bit indexing is possible
C13_Witness ==
    /\ disp.site = "softmax"
    /\ ~HandedToLibrary(disp)
    /\ disp.inner_size = 1 /\ disp.can32
    /\ disp.dim_size = maxWGSize * InnerLoopOf(disp) + 1
    /\ Len(disp.launches) = 1
    /\ disp.launches[1].strategy = "streaming"

\* the register-resident launches of the call
RegisterLaunches ==
    {l \in {disp.launches[k] : k \in 1 .. Len(disp.launches)} : l.strategy = "register"}

\* C14: on every register-resident launch vec_size * outer_loop * work-group
\* column width >= dim_size, and (rows up to MaxSmallDim are checked element
\* by element) every element of a row lies in a vector some work-item loads
C14_RegisterCapacityCoversRow ==
    disp.site /= "none" =>
      \A l \in RegisterLaunches :
        /\ l.vec_size * l.outer_loop * l.local_size >= disp.dim_size
        /\ disp.dim_size <= MaxSmallDim =>
              LET loaded == LoadedIndexes(l, disp.dim_size)
              IN \A e \in 0 .. disp.dim_size - 1 :
                    \E index \in loaded : index <= e /\ e < index + l.vec_size

\* C14 witness: a row that exactly fills the registers of a full work-group
C14_Witness ==
    /\ disp.site = "softmax_backward"
    /\ \E l \in RegisterLaunches :
         /\ l.local_size = maxWGSize
         /\ l.vec_size * l.outer_loop * l.local_size = disp.dim_size

\* the base pointers of the call are aligned to the maximum vector width and
\* dim_size is a multiple of it
AlignedCall ==
    /\ \A k \in 1 .. Len(disp.starts) : disp.starts[k] = 0
    /\ disp.dim_size % max_vec_size(disp.dtype) = 0

\* C15: a register-resident launch has vec_size > 1 only for aligned base
\* pointers and dim_size a multiple of the maximum vector width, else
\* vec_size = 1; every vector loaded or stored starts at a row offset that
\* is a multiple of vec_size and ends at or before the end of the row
C15_VectorAccessesAlignedAndInRow ==
    disp.site /= "none" =>
      \A l \in RegisterLaunches :
        /\ l.vec_size >= 1
        /\ l.vec_size > 1 => AlignedCall
        /\ ~AlignedCall => l.vec_size = 1
        /\ \A i \in 0 .. l.outer_loop - 1, lid_col \in 0 .. l.local_size - 1 :
              LET index == LoadIndex(l, i, lid_col)
              IN index < disp.dim_size =>
                    /\ index % l.vec_size = 0
                    /\ index + l.vec_size <= disp.dim_size

\* C15 witness: a vectorised launch in which the last vector ends exactly
\* at the end of the row and the work-items beyond it load nothing
C15_Witness ==
    /\ disp.site = "masked_softmax"
    /\ \E l \in RegisterLaunches :
         /\ l.vec_size > 1 /\ l.local_size > 1
         /\ disp.dim_size < l.vec_size * l.local_size
         /\ disp.dim_size - l.vec_size \in LoadedIndexes(l, disp.dim_size)

\* ------------------------------------------------------------------------
\* One work-group of a kernel, run work-item by work-item.  A thread is a
\* set of work-items that run in lock step: a subgroup where the kernel
\* uses subgroup collectives, one work-item elsewhere.  A thread runs from
\* one group-wide synchronisation to the next in one step.  Values are
\* symbolic: the set of input elements combined, whether an element was
\* combined twice, and whether an unspecified value was combined.
\* ------------------------------------------------------------------------
\* the longest row of the register-resident and streaming kernels
MaxWgDim == 9

\* the subgroup widths of the work-group: the template parameter SIMD,
\* scaled down from 16 and 32
WgSIMDs == {2, 4}

\* the identity of a reduction (init), an unspecified value, one input
NoItems == [items |-> {}, dup |-> FALSE, junk |-> FALSE]

Unspecified == [items |-> {}, dup |-> FALSE, junk |-> TRUE]

Only(S) == [items |-> S, dup |-> FALSE, junk |-> FALSE]

\* bin_op(a, b) of a reduction
bin_op(a, b) ==
    [items |-> a.items \cup b.items,
     dup |-> a.dup \/ b.dup \/ (a.items \cap b.items /= {}),
     junk |-> a.junk \/ b.junk]

RECURSIVE Butterfly_NoBreak(_, _, _, _)
RECURSIVE Butterfly(_, _, _, _)
Butterfly_NoBreak(v, SIMD, i, brk) ==
    IF i >= brk THEN v
    ELSE Butterfly_NoBreak(
             [l \in 0 .. SIMD - 1 |->
                 bin_op(v[l], IF l + i < SIMD THEN v[l + i] ELSE Unspecified)],
             SIMD, 2 * i, brk)
\* group_reduce: for (i = 1; i < SIMD; i <<= 1)
\*   val = bin_op(val, shift_group_left(sg, val, i)); if (i >= brk) break;
\* v is the val of every lane; a lane past the end of the subgroup yields
\* an unspecified value
Butterfly(v, SIMD, i, brk) ==
    IF i >= SIMD THEN v
    ELSE LET w == [l \in 0 .. SIMD - 1 |->
                      bin_op(v[l], IF l + i < SIMD THEN v[l + i] ELSE Unspecified)]
         IN IF i >= brk THEN w ELSE Butterfly(w, SIMD, 2 * i, brk)

RECURSIVE GatherPartials(_, _, _, _, _)
\* group_reduce: for (i = sg_local_id + SIMD; i < sub_group_num; i += SIMD)
\*   val = bin_op(val, local_data[lid_row][i])
GatherPartials(val, data, i, SIMD, sub_group_num) ==
    IF i >= sub_group_num THEN val
    ELSE GatherPartials(bin_op(val, data[i]), data, i + SIMD, SIMD, sub_group_num)

\* the launched group of a register-resident kernel: the execution shape is
\* the one get_wgroup_size gives; group is the group's index
RegisterKernel(kernel, phases, SIMD, vec_size, NUM, dim_size, outer_size, last) ==
    LET wg == get_wgroup_size(SIMD, vec_size, NUM, dim_size, outer_size)
    IN [kind |-> "register", kernel |-> kernel, phases |-> phases, SIMD |-> SIMD,
        vec_size |-> vec_size, outer_loop |-> NUM, dim_size |-> dim_size,
        inner_size |-> 1, outer_size |-> outer_size,
        local_size |-> wg.local_size_col, local_size_row |-> wg.local_size_row,
        sub_group_num |-> wg.sub_group_num,
        lanes |-> IF wg.local_size_col = 1 THEN 1 ELSE SIMD,
        start |-> 0,
        group |-> IF last THEN wg.global_size_row - 1 ELSE 0]

\* the threads of the group and the work-items <<row, column>> of a thread
Threads(k) ==
    {<<r, s>> : r \in 0 .. k.local_size_row - 1,
                s \in 0 .. (k.local_size \div k.lanes) - 1}

WorkItemOf(k, t, l) == <<t[1], t[2] * k.lanes + l>>

WorkItems(k) == {<<r, c>> : r \in 0 .. k.local_size_row - 1, c \in 0 .. k.local_size - 1}

\* item_id.get_global_id(0) of a work-item of the group
GlobalId(k, wi) ==
    k.group * (k.local_size_row * k.local_size) + wi[1] * k.local_size + wi[2]

\* if (local_size == 1 && item_id.get_global_id(0) >= outer_size) return;
Exits(k, wi) == k.kind = "register" /\ k.local_size = 1 /\ GlobalId(k, wi) >= k.outer_size

\* the input elements <<row, position>> a work-item of a register-resident
\* kernel loads into its registers
Loaded(k, wi) ==
    {<<wi[1], index + j>> :
        index \in {LoadIndex(k, i, wi[2]) : i \in 0 .. k.outer_loop - 1}
                  \cap (0 .. k.dim_size - 1),
        j \in 0 .. k.vec_size - 1}

\* the scratch buffer of a phase: local_max, local_sum
BufOf(ph) == IF ph = "max" THEN "local_max" ELSE "local_sum"

\* the effect of a step: registers, scratch memory, the accesses to scratch
\* since the last barrier, and where the thread is next
Eff(reg, mem, log, at) == [reg |-> reg, mem |-> mem, log |-> log, at |-> at]

\* the thread is past the reduction of phase ph with val in every lane:
\* forward kernels go on to the sum phase, whose exp terms use max_value
RECURSIVE RegisterEnter(_, _, _, _, _, _)
RegisterAfter(k, t, ph, val, reg, mem, log) ==
    LET reg1 == [wi \in DOMAIN reg |->
                    IF \E l \in 0 .. k.lanes - 1 : wi = WorkItemOf(k, t, l)
                    THEN LET l == CHOOSE x \in 0 .. k.lanes - 1 : wi = WorkItemOf(k, t, x)
                         IN [reg[wi] EXCEPT ![ph] = val[l],
                                            !.returned = @ \cup {ph}]
                    ELSE reg[wi]]
    IN IF ph = "max" /\ Len(k.phases) = 2
       THEN RegisterEnter(k, t, "sum", reg1, mem, log)
       ELSE Eff(reg1, mem, log, [phase |-> ph, at |-> "done", level |-> 0])

\* a phase up to the first barrier of group_reduce: the work-items'
\* partial results over their own elements, then, if (local_size > 1),
\* group_reduce up to its first barrier, or to its end if sub_group_num == 1
RegisterEnter(k, t, ph, reg, mem, log) ==
    LET used == [wi \in DOMAIN reg |->
                    IF /\ \E l \in 0 .. k.lanes - 1 : wi = WorkItemOf(k, t, l)
                       /\ ph = "sum" /\ Len(k.phases) = 2
                    THEN [reg[wi] EXCEPT !.used = @ \cup {reg[wi].max}]
                    ELSE reg[wi]]
        part == [l \in 0 .. k.lanes - 1 |-> Only(Loaded(k, WorkItemOf(k, t, l)))]
        v == Butterfly(part, k.SIMD, 1, k.SIMD)
        cell == <<BufOf(ph), t[1], t[2]>>
    IN IF k.local_size = 1 THEN RegisterAfter(k, t, ph, part, used, mem, log)
       ELSE IF k.sub_group_num = 1
       THEN RegisterAfter(k, t, ph, [l \in 0 .. k.lanes - 1 |-> v[0]], used, mem, log)
       ELSE Eff([wi \in DOMAIN used |->
                    IF \E l \in 0 .. k.lanes - 1 : wi = WorkItemOf(k, t, l)
                    THEN LET l == CHOOSE x \in 0 .. k.lanes - 1 : wi = WorkItemOf(k, t, x)
                         IN [used[wi] EXCEPT !.val = v[l]]
                    ELSE used[wi]],
                [mem EXCEPT ![cell] = v[0]],
                log \cup {[cell |-> cell, wi |-> WorkItemOf(k, t, 0), w |-> TRUE]},
                [phase |-> ph, at |-> "b138", level |-> 0])

RegisterCombine_BarrierInsideIf(k, t, ph, reg, mem, log) ==
    LET buf == BufOf(ph)
        data == [i \in 0 .. k.sub_group_num - 1 |-> mem[<<buf, t[1], i>>]]
        v == [l \in 0 .. k.SIMD - 1 |->
                 GatherPartials(IF l < k.sub_group_num THEN data[l] ELSE NoItems,
                                data, l + k.SIMD, k.SIMD, k.sub_group_num)]
        w == Butterfly(v, k.SIMD, 1, (k.sub_group_num + 1) \div 2)
        cell == <<buf, t[1], 0>>
    IN IF t[2] = 0
       THEN Eff([wi \in DOMAIN reg |->
                    IF \E l \in 0 .. k.lanes - 1 : wi = WorkItemOf(k, t, l)
                    THEN LET l == CHOOSE x \in 0 .. k.lanes - 1 : wi = WorkItemOf(k, t, x)
                         IN [reg[wi] EXCEPT !.val = w[l]]
                    ELSE reg[wi]],
                [mem EXCEPT ![cell] = w[0]], log,
                [phase |-> ph, at |-> "b163", level |-> 0])
       ELSE Eff(reg, mem, log, [phase |-> ph, at |-> "leave", level |-> 0])
\* group_reduce between its barriers: the subgroup with idx == 0 reduces
\* the partials of the row's subgroups and its lane 0 writes the result
RegisterCombine(k, t, ph, reg, mem, log) ==
    LET buf == BufOf(ph)
        data == [i \in 0 .. k.sub_group_num - 1 |-> mem[<<buf, t[1], i>>]]
        v == [l \in 0 .. k.SIMD - 1 |->
                 GatherPartials(IF l < k.sub_group_num THEN data[l] ELSE NoItems,
                                data, l + k.SIMD, k.SIMD, k.sub_group_num)]
        w == Butterfly(v, k.SIMD, 1, (k.sub_group_num + 1) \div 2)
        reads == {[cell |-> <<buf, t[1], i>>, wi |-> WorkItemOf(k, t, i % k.SIMD),
                   w |-> FALSE] : i \in 0 .. k.sub_group_num - 1}
        cell == <<buf, t[1], 0>>
    IN IF t[2] = 0
       THEN Eff([wi \in DOMAIN reg |->
                    IF \E l \in 0 .. k.lanes - 1 : wi = WorkItemOf(k, t, l)
                    THEN LET l == CHOOSE x \in 0 .. k.lanes - 1 : wi = WorkItemOf(k, t, x)
                         IN [reg[wi] EXCEPT !.val = w[l]]
                    ELSE reg[wi]],
                [mem EXCEPT ![cell] = w[0]],
                log \cup reads
                    \cup {[cell |-> cell, wi |-> WorkItemOf(k, t, 0), w |-> TRUE]},
                [phase |-> ph, at |-> "b163", level |-> 0])
       ELSE Eff(reg, mem, log, [phase |-> ph, at |-> "b163", level |-> 0])

RegisterLeave_KeepVal(k, t, ph, reg, mem, log) ==
    RegisterAfter(k, t, ph,
                  [l \in 0 .. k.lanes - 1 |-> reg[WorkItemOf(k, t, l)].val],
                  reg, mem, log)
\* group_reduce after its second barrier: val = local_data[lid_row][0]
RegisterLeave(k, t, ph, reg, mem, log) ==
    LET cell == <<BufOf(ph), t[1], 0>>
    IN RegisterAfter(k, t, ph, [l \in 0 .. k.lanes - 1 |-> mem[cell]], reg, mem,
                     log \cup {[cell |-> cell, wi |-> WorkItemOf(k, t, l), w |-> FALSE] :
                                  l \in 0 .. k.lanes - 1})

\* the next step of a thread of a register-resident kernel
RegisterStep(k, t, at, reg, mem, log) ==
    IF at.at = "start"
    THEN IF Exits(k, WorkItemOf(k, t, 0))
         THEN Eff(reg, mem, log, [phase |-> "exit", at |-> "done", level |-> 0])
         ELSE RegisterEnter(k, t, k.phases[1], reg, mem, log)
    ELSE IF at.at = "combine" THEN RegisterCombine(k, t, at.phase, reg, mem, log)
    ELSE RegisterLeave(k, t, at.phase, reg, mem, log)

\* ---- spatial kernels: one thread per work-item <<row-worker, column>> ----
\* the longest reduced axis of the spatial kernels
MaxSpatialDim == 5

\* a small batch, whose rows get one row-worker each, and a large one
SpatialOuterSizes == {1, MIN_WG_NUM \div 2}

\* the launched group of a spatial kernel: the execution shape is the one
\* get_wgroup_size_spatial gives
SpatialKernel(kernel, phases, vec_size, dim_size, inner_size, outer_size) ==
    LET wg == get_wgroup_size_spatial(vec_size, outer_size, dim_size, inner_size)
    IN [kind |-> "spatial", kernel |-> kernel, phases |-> phases, SIMD |-> 0,
        vec_size |-> vec_size, outer_loop |-> 0, dim_size |-> dim_size,
        inner_size |-> inner_size, outer_size |-> outer_size,
        local_size |-> wg.local_size, local_size_row |-> wg.block_row,
        sub_group_num |-> 0, lanes |-> 1, start |-> 0, group |-> 0]

\* the input elements <<position, column, lane>> that lane j of a row-worker
\* folds: for (i = local_row_id; i < dim_size; i += block_row)
SpatialElems(k, wi, j) ==
    {<<i, wi[2], j>> : i \in {x \in 0 .. k.dim_size - 1 : x % k.local_size_row = wi[1]}}

\* local_data[row][col][j]
Cell(r, c, j) == <<"local_data", r, c, j>>

RECURSIVE SpatialEnter(_, _, _, _, _, _)
\* the work-item is past the reduction of phase ph with val in its lanes;
\* the forward kernel passes a barrier between reading the maximum and the
\* sum phase, which reuses local_data
SpatialAfter_NoBarrier(k, t, ph, val, reg, mem, log) ==
    LET reg1 == [reg EXCEPT ![t] = [@ EXCEPT ![ph] = val, !.returned = @ \cup {ph}]]
    IN IF ph = "max" /\ Len(k.phases) = 2
       THEN SpatialEnter(k, t, "sum", reg1, mem, log)
       ELSE Eff(reg1, mem, log, [phase |-> ph, at |-> "done", level |-> 0])
SpatialAfter(k, t, ph, val, reg, mem, log) ==
    LET reg1 == [reg EXCEPT ![t] = [@ EXCEPT ![ph] = val, !.returned = @ \cup {ph}]]
    IN IF ph = "max" /\ Len(k.phases) = 2
       THEN IF k.local_size_row > 1
            THEN Eff(reg1, mem, log, [phase |-> ph, at |-> "b990", level |-> 0])
            ELSE SpatialEnter(k, t, "sum", reg1, mem, log)
       ELSE Eff(reg1, mem, log, [phase |-> ph, at |-> "done", level |-> 0])

\* a phase up to the first barrier of group_reduce_spatial: the partial
\* result of the row-worker, stored to its own cells if (block_row > 1)
SpatialEnter(k, t, ph, reg, mem, log) ==
    LET used == IF ph = "sum" /\ Len(k.phases) = 2
                THEN [reg EXCEPT ![t] = [@ EXCEPT !.used = @ \cup {reg[t].max}]]
                ELSE reg
        part == [j \in 0 .. k.vec_size - 1 |-> Only(SpatialElems(k, t, j))]
        own == {Cell(t[1], t[2], j) : j \in 0 .. k.vec_size - 1}
    IN IF k.local_size_row > 1
       THEN Eff([used EXCEPT ![t] = [@ EXCEPT !.val = part]],
                [c \in DOMAIN mem |-> IF c \in own THEN part[c[4]] ELSE mem[c]],
                log \cup {[cell |-> c, wi |-> t, w |-> TRUE] : c \in own},
                [phase |-> ph, at |-> "bw", level |-> 0])
       ELSE SpatialAfter(k, t, ph, part, used, mem, log)

SpatialLevel_NextRow(k, t, at, reg, mem, log) ==
    LET own == {Cell(t[1], t[2], j) : j \in 0 .. k.vec_size - 1}
    IN IF t[1] % (2 * at.level) = 0 /\ t[1] + 1 < k.local_size_row
       THEN Eff(reg,
                [c \in DOMAIN mem |->
                    IF c \in own
                    THEN bin_op(mem[c], mem[Cell(t[1] + 1, t[2], c[4])])
                    ELSE mem[c]],
                log, [at EXCEPT !.at = "bl"])
       ELSE Eff(reg, mem, log, [at EXCEPT !.at = "bl"])
\* one level of the tree of group_reduce_spatial:
\* if (local_row_id % (k << 1) == 0 && local_row_id + k < block_row)
SpatialLevel(k, t, at, reg, mem, log) ==
    LET own == {Cell(t[1], t[2], j) : j \in 0 .. k.vec_size - 1}
        other == {Cell(t[1] + at.level, t[2], j) : j \in 0 .. k.vec_size - 1}
    IN IF t[1] % (2 * at.level) = 0 /\ t[1] + at.level < k.local_size_row
       THEN Eff(reg,
                [c \in DOMAIN mem |->
                    IF c \in own
                    THEN bin_op(mem[c], mem[Cell(t[1] + at.level, t[2], c[4])])
                    ELSE mem[c]],
                log \cup {[cell |-> c, wi |-> t, w |-> FALSE] : c \in own \cup other}
                    \cup {[cell |-> c, wi |-> t, w |-> TRUE] : c \in own},
                [at EXCEPT !.at = "bl"])
       ELSE Eff(reg, mem, log, [at EXCEPT !.at = "bl"])

\* after group_reduce_spatial: the result is read from local_data[0][col]
SpatialRead(k, t, ph, reg, mem, log) ==
    SpatialAfter(k, t, ph, [j \in 0 .. k.vec_size - 1 |-> mem[Cell(0, t[2], j)]],
                 reg, mem,
                 log \cup {[cell |-> Cell(0, t[2], j), wi |-> t, w |-> FALSE] :
                              j \in 0 .. k.vec_size - 1})

\* the next step of a work-item of a spatial kernel
SpatialStep(k, t, at, reg, mem, log) ==
    IF at.at = "start" THEN SpatialEnter(k, t, k.phases[1], reg, mem, log)
    ELSE IF at.at = "level" THEN SpatialLevel(k, t, at, reg, mem, log)
    ELSE IF at.at = "read" THEN SpatialRead(k, t, at.phase, reg, mem, log)
    ELSE SpatialEnter(k, t, "sum", reg, mem, log)

\* ---- streaming kernels: one thread per work-item, one group per row ----
\* the launched group of a streaming kernel; start is the misalignment of
\* the row's first element
StreamingKernel(kernel, phases, vec_size, dim_size, start) ==
    LET n == CeilDiv(dim_size, vec_size)
    IN [kind |-> "streaming", kernel |-> kernel, phases |-> phases, SIMD |-> 0,
        vec_size |-> vec_size, outer_loop |-> 0, dim_size |-> dim_size,
        inner_size |-> 1, outer_size |-> 1,
        local_size |-> IF n < maxWGSize THEN n ELSE maxWGSize, local_size_row |-> 1,
        sub_group_num |-> 0, lanes |-> 1, start |-> start, group |-> 0]

\* the elements a work-item folds: for (i = local_id; i < loops_end;
\* i += local_size), linear_idx = i * vec_size + j - start in [0, dim_size)
StreamingElems(k, wi) ==
    {<<0, i * k.vec_size + j - k.start>> :
        i \in {x \in 0 .. CeilDiv(k.dim_size + k.start, k.vec_size) - 1 :
                  x % k.local_size = wi[2]},
        j \in 0 .. k.vec_size - 1}
    \cap {<<0, e>> : e \in 0 .. k.dim_size - 1}

\* a phase up to its reduce_over_group: the partial result of the work-item
StreamingEnter(k, t, ph, reg, mem, log) ==
    LET used == IF ph = "sum" /\ Len(k.phases) = 2
                THEN [reg EXCEPT ![t] = [@ EXCEPT !.used = @ \cup {reg[t].max}]]
                ELSE reg
    IN Eff([used EXCEPT ![t] = [@ EXCEPT !.val = Only(StreamingElems(k, t))]],
           mem, log, [phase |-> ph, at |-> "reduce_over_group", level |-> 0])

\* the next step of a work-item of a streaming kernel
StreamingStep(k, t, at, reg, mem, log) ==
    IF at.at = "start" THEN StreamingEnter(k, t, k.phases[1], reg, mem, log)
    ELSE IF at.phase = "max" /\ Len(k.phases) = 2
    THEN StreamingEnter(k, t, "sum", reg, mem, log)
    ELSE Eff(reg, mem, log, [phase |-> at.phase, at |-> "done", level |-> 0])

RECURSIVE FoldGroup(_, _, _)
\* sycl::reduce_over_group: the values of the work-items c, c + 1, ...
\* of the group combined
FoldGroup(reg, c, n) ==
    IF c >= n THEN NoItems ELSE bin_op(reg[<<0, c>>].val, FoldGroup(reg, c + 1, n))

\* the registers of a work-item before the kernel runs
FreshReg(k) ==
    LET none == IF k.kind = "spatial"
                THEN [j \in 0 .. k.vec_size - 1 |-> Unspecified]
                ELSE Unspecified
    IN [val |-> none, max |-> none, sum |-> none, used |-> {}, returned |-> {}]

\* a kernel's group starts: every thread at the top of the functor, the
\* scratch memory uninitialised
Started(k, cells) ==
    /\ wgKernel' = k
    /\ wgThread' = [t \in Threads(k) |-> [phase |-> "none", at |-> "start", level |-> 0]]
    /\ wgReg' = [wi \in WorkItems(k) |-> FreshReg(k)]
    /\ wgMem' = [c \in cells |-> Unspecified]
    /\ wgLog' = {}
    /\ UNCHANGED <<gmVars, mmVars, smVars, prVars, dsVars>>

\* dispatch_softmax_forward_kernel (plain and masked),
\* dispatch_softmax_forward_add_kernel, dispatch_softmax_backward_kernel
Launch_register ==
    /\ wgKernel.kind = "none"
    /\ \E kernel \in {"dispatch_softmax_forward_kernel",
                     "dispatch_softmax_forward_add_kernel",
                     "dispatch_softmax_backward_kernel"},
          SIMD \in WgSIMDs, vec_size \in {1, 2}, NUM \in {1, 2} :
         \E dim_size \in 1 .. MaxWgDim, outer_size \in OuterSizes, last \in BOOLEAN :
            /\ dim_size % vec_size = 0
            \* of the kernel's control flow only the early exit reads the group's index
            /\ last => dim_size <= vec_size * NUM
            /\ \E k \in {RegisterKernel(
                            kernel,
                            IF kernel = "dispatch_softmax_backward_kernel"
                            THEN <<"sum">> ELSE <<"max", "sum">>,
                            SIMD, vec_size, NUM, dim_size, outer_size, last)} :
                  Started(k, {<<BufOf(k.phases[n]), r, i>> :
                                 n \in 1 .. Len(k.phases),
                                 r \in 0 .. k.local_size_row - 1,
                                 i \in 0 .. k.sub_group_num - 1})

\* spatial_softmax_forward, spatial_softmax_backward_kernel
Launch_spatial ==
    /\ wgKernel.kind = "none"
    /\ \E kernel \in {"spatial_softmax_forward", "spatial_softmax_backward_kernel"},
          vec_size \in {1, 2}, dim_size \in 1 .. MaxSpatialDim,
          outer_size \in SpatialOuterSizes :
         \E k \in {SpatialKernel(
                      kernel,
                      IF kernel = "spatial_softmax_backward_kernel"
                      THEN <<"sum">> ELSE <<"max", "sum">>,
                      vec_size, dim_size, 2, outer_size)} :
            Started(k, {Cell(r, c, j) : r \in 0 .. k.local_size_row - 1,
                                        c \in 0 .. k.local_size - 1,
                                        j \in 0 .. k.vec_size - 1})

\* softmax_forward_kernel, softmax_backward_kernel
Launch_streaming ==
    /\ wgKernel.kind = "none"
    /\ \E kernel \in {"softmax_forward_kernel", "softmax_backward_kernel"},
          vec_size \in {1, 2}, dim_size \in 1 .. MaxWgDim :
         \E start \in 0 .. vec_size - 1 :
            \E k \in {StreamingKernel(
                         kernel,
                         IF kernel = "softmax_backward_kernel"
                         THEN <<"sum">> ELSE <<"max", "sum">>,
                         vec_size, dim_size, start)} :
               Started(k, {})

\* where a thread can run, and where it waits for the group
Runnable == {"start", "combine", "leave", "level", "read", "resume"}

Barriers == {"b138", "b163", "bw", "bl", "b990"}

\* the step of a thread of the running kernel
KernelStep(k, t, at, reg, mem, log) ==
    IF k.kind = "register" THEN RegisterStep(k, t, at, reg, mem, log)
    ELSE IF k.kind = "spatial" THEN SpatialStep(k, t, at, reg, mem, log)
    ELSE StreamingStep(k, t, at, reg, mem, log)

\* where a thread continues after a barrier: the loop of
\* group_reduce_spatial goes on while (k < block_row)
AfterBarrier(k, at) ==
    IF at.at = "b138" THEN [at EXCEPT !.at = "combine"]
    ELSE IF at.at = "b163" THEN [at EXCEPT !.at = "leave"]
    ELSE IF at.at = "bw" THEN [at EXCEPT !.at = "level", !.level = 1]
    ELSE IF at.at = "bl"
    THEN IF 2 * at.level < k.local_size_row
         THEN [at EXCEPT !.at = "level", !.level = 2 * at.level]
         ELSE [at EXCEPT !.at = "read"]
    ELSE [at EXCEPT !.at = "resume"]

\* a thread runs up to its next barrier, or to the end of the kernel
ThreadStep ==
    /\ wgKernel.kind /= "none"
    /\ \E t \in DOMAIN wgThread :
         /\ wgThread[t].at \in Runnable
         /\ \E e \in {KernelStep(wgKernel, t, wgThread[t], wgReg, wgMem, wgLog)} :
              /\ wgThread' = [wgThread EXCEPT ![t] = e.at]
              /\ wgReg' = e.reg
              /\ wgMem' = e.mem
              /\ wgLog' = e.log
    /\ UNCHANGED <<gmVars, mmVars, smVars, prVars, dsVars, wgKernel>>

\* item_id.barrier(): every work-item of the group has arrived at the same
\* barrier; all continue
BarrierRelease ==
    /\ wgKernel.kind /= "none"
    /\ \E b \in {wgThread[t] : t \in DOMAIN wgThread} :
         /\ b.at \in Barriers
         /\ \A t \in DOMAIN wgThread : wgThread[t] = b
         /\ wgThread' = [t \in DOMAIN wgThread |-> AfterBarrier(wgKernel, b)]
    /\ wgLog' = {}
    /\ UNCHANGED <<gmVars, mmVars, smVars, prVars, dsVars, wgKernel, wgReg, wgMem>>

\* sycl::reduce_over_group: every work-item of the group has arrived; each
\* gets the combination of all their values
CollectiveRelease ==
    /\ wgKernel.kind /= "none"
    /\ \E b \in {wgThread[t] : t \in DOMAIN wgThread} :
         /\ b.at = "reduce_over_group"
         /\ \A t \in DOMAIN wgThread : wgThread[t] = b
         /\ wgThread' = [t \in DOMAIN wgThread |-> [b EXCEPT !.at = "resume"]]
         /\ wgReg' = [wi \in DOMAIN wgReg |->
                         [wgReg[wi] EXCEPT
                             ![b.phase] = FoldGroup(wgReg, 0, wgKernel.local_size),
                             !.returned = @ \cup {b.phase}]]
    /\ UNCHANGED <<gmVars, mmVars, smVars, prVars, dsVars, wgKernel, wgMem, wgLog>>

NextKernel ==
    \/ Launch_register
    \/ Launch_spatial
    \/ Launch_streaming
    \/ ThreadStep
    \/ BarrierRelease
    \/ CollectiveRelease

SpecKernel == InitMinMax /\ [][NextKernel]_vars

\* ------------------------------------------------------------------------
\* Claims about the kernels
\* ------------------------------------------------------------------------
\* the reduction of the inputs of all work-items of row slot r
RowReduction(k, r) == Only(UNION {Loaded(k, wi) : wi \in {x \in WorkItems(k) : x[1] = r}})

\* every thread of the group has left the kernel
KernelFinished ==
    /\ wgKernel.kind /= "none"
    /\ \A t \in DOMAIN wgThread : wgThread[t].at = "done"

\* C18: for every sub_group_num >= 1 and every row slot, when group_reduce
\* has returned every work-item of the row holds the reduction of the input
\* values of all work-items of that row, each once, and of no other row
C18_GroupReduceGivesTheRowReduction ==
    (wgKernel.kind = "register" /\ wgKernel.local_size > 1) =>
       \A wi \in DOMAIN wgReg : \A ph \in wgReg[wi].returned :
          wgReg[wi][ph] = RowReduction(wgKernel, wi[1])

\* C18 witness: two rows of five subgroups each, more subgroups than lanes,
\* and every work-item holds its own row's sums
C18_Witness ==
    /\ KernelFinished
    /\ wgKernel.kind = "register"
    /\ wgKernel.sub_group_num > 2 * wgKernel.SIMD
    /\ wgKernel.local_size_row = 2
    /\ \A wi \in DOMAIN wgReg :
          /\ wgReg[wi].returned = {"max", "sum"}
          /\ wgReg[wi].sum = RowReduction(wgKernel, wi[1])
          /\ wgReg[wi].sum.items = {<<wi[1], e>> : e \in 0 .. wgKernel.dim_size - 1}

\* the reduction of the inputs of all row-workers of column c, lane j
ColumnReduction(k, c, j) ==
    Only(UNION {SpatialElems(k, wi, j) : wi \in {x \in WorkItems(k) : x[2] = c}})

\* C19: for every block_row >= 2, powers of two or not, when
\* group_reduce_spatial has returned local_data[0][col][j] holds the
\* reduction of the inputs of all row-workers of the column for that lane,
\* each input once, and every row-worker of the column reads that value
C19_SpatialTreeGivesTheColumnReduction ==
    (wgKernel.kind = "spatial" /\ wgKernel.local_size_row >= 2) =>
       /\ \A t \in DOMAIN wgThread :
             wgThread[t].at = "read" =>
                \A j \in 0 .. wgKernel.vec_size - 1 :
                   wgMem[Cell(0, t[2], j)] = ColumnReduction(wgKernel, t[2], j)
       /\ \A wi \in DOMAIN wgReg : \A ph \in wgReg[wi].returned :
             \A j \in 0 .. wgKernel.vec_size - 1 :
                wgReg[wi][ph][j] = ColumnReduction(wgKernel, wi[2], j)

\* C19 witness: the backward kernel with five row-workers, not a power of
\* two, two lanes per work-item; every row-worker has read the column's sum
C19_Witness ==
    /\ KernelFinished
    /\ wgKernel.kind = "spatial"
    /\ wgKernel.kernel = "spatial_softmax_backward_kernel"
    /\ wgKernel.local_size_row = 5
    /\ wgKernel.vec_size = 2
    /\ \A wi \in DOMAIN wgReg :
          /\ wgReg[wi].returned = {"sum"}
          /\ \A j \in {0, 1} :
                wgReg[wi].sum[j] = Only({<<i, wi[2], j>> : i \in 0 .. 4})

\* the maximum over the entire row a work-item works on: the row of the
\* register-resident and streaming kernels, per lane the column of the
\* spatial kernel
FullRowMax(k, wi) ==
    IF k.kind = "spatial"
    THEN [j \in 0 .. k.vec_size - 1 |->
             Only({<<i, wi[2], j>> : i \in 0 .. k.dim_size - 1})]
    ELSE Only({<<wi[1], e>> : e \in 0 .. k.dim_size - 1})

\* C16: in every forward kernel the maximum a work-item uses in the exp
\* terms of the sum phase is the maximum over the entire row, combined from
\* all work-items' partial maxima, and so the same for all work-items of
\* the row
C16_SumPhaseUsesTheRowMaximum ==
    wgKernel.kind /= "none" =>
       \A wi \in DOMAIN wgReg : \A m \in wgReg[wi].used :
          m = FullRowMax(wgKernel, wi)

\* C16 witness: the fused add kernel with several subgroups per row has
\* finished and every work-item used its row's maximum in the sum phase
C16_Witness ==
    /\ KernelFinished
    /\ wgKernel.kernel = "dispatch_softmax_forward_add_kernel"
    /\ wgKernel.sub_group_num >= 2
    /\ wgKernel.local_size_row >= 2
    /\ \A wi \in DOMAIN wgReg : wgReg[wi].used = {FullRowMax(wgKernel, wi)}

\* C17: between two accesses to one scratch cell by different work-items
\* of the group, one of them a write, a barrier of the group intervenes:
\* no two such accesses fall between the same two barriers
C17_NoRaceOnScratch ==
    \A a \in wgLog : \A b \in wgLog :
       (a.cell = b.cell /\ a.wi /= b.wi) => (~a.w /\ ~b.w)

\* C17 witness: the spatial forward kernel with three or more row-workers;
\* all have read the maximum from row 0 of local_data, passed the barrier
\* and written their partial sums to the same buffer
C17_Witness ==
    /\ wgKernel.kind = "spatial"
    /\ wgKernel.kernel = "spatial_softmax_forward"
    /\ wgKernel.local_size_row >= 3
    /\ \A t \in DOMAIN wgThread :
          /\ wgThread[t] = [phase |-> "sum", at |-> "bw", level |-> 0]
          /\ wgReg[t].returned = {"max"}
          /\ [cell |-> Cell(t[1], t[2], 0), wi |-> t, w |-> TRUE] \in wgLog

\* the kernels under the device's scheduling: a launched group's work-items
\* all run, and a barrier or a group reduction all have arrived at completes
SpecKernelLive ==
    /\ SpecKernel
    /\ WF_vars(ThreadStep)
    /\ WF_vars(BarrierRelease)
    /\ WF_vars(CollectiveRelease)

\* where a thread waits for the other work-items of its group
Waits == Barriers \cup {"reduce_over_group"}

\* the work-items that wait all wait at the same barrier of the same
\* phase and level, and none waits after another has left the kernel
BarrierUniform ==
    \A t \in DOMAIN wgThread :
       wgThread[t].at \in Waits =>
          \A u \in DOMAIN wgThread :
             /\ wgThread[u].at /= "done"
             /\ wgThread[u].at \in Waits => wgThread[u] = wgThread[t]

\* C20: every kernel runs to completion: the work-items of a group pass
\* the same barriers, none waits at a barrier another never reaches, with
\* work-items owning no element of the row and with surplus work-items
\* leaving early when one work-item handles a row
C20_EveryKernelRunsToCompletion ==
    /\ []BarrierUniform
    /\ (wgKernel.kind /= "none") ~> KernelFinished

\* C20 witness: a register-resident kernel whose group has several
\* subgroups per row and a work-item past the end of the row has finished,
\* every work-item having passed both reductions
C20_Witness ==
    /\ KernelFinished
    /\ wgKernel.kind = "register"
    /\ wgKernel.sub_group_num >= 2
    /\ \E wi \in WorkItems(wgKernel) : Loaded(wgKernel, wi) = {}
    /\ \A wi \in DOMAIN wgReg : wgReg[wi].returned = {"max", "sum"}

\* the register-resident forward launches of the call: plain, masked and
\* fused add
ForwardRegisterLaunches ==
    {l \in RegisterLaunches :
        l.kernel \in {"dispatch_softmax_forward_kernel",
                      "dispatch_softmax_forward_kernel<is_masked>",
                      "dispatch_softmax_forward_add_kernel"}}

DeviceMaxima == {256, 512}

\* the current queue is on another device
SelectDevice ==
    /\ disp.site = "none"
    /\ ~device.selected
    /\ \E m \in DeviceMaxima : device' = [maxWGSize |-> m, selected |-> TRUE]
    /\ UNCHANGED <<mmVars, smVars, prVars, dsVars, wgVars, fused, gm>>

NextDevice == SelectDevice \/ NextDispatch

SpecDevice == InitMinMax /\ [][NextDevice]_vars

\* the launches of the call that run a kernel of this file
KernelLaunches ==
    {l \in {disp.launches[k] : k \in 1 .. Len(disp.launches)} :
        l.strategy \in {"register", "streaming", "spatial"}}

LocalIds(l) == 0 .. l.local_size_row * l.local_size - 1

\* lid_row of the work-item with local id id: 0, or
\* if (local_size_row != 1) lid_row = item_id.get_local_id(0) / local_size
LidRow(l, id) == IF l.local_size_row /= 1 THEN id \div l.local_size ELSE 0

\* sg.get_group_linear_id() and sg.get_local_linear_id(): the subgroups of
\* a one-dimensional group of required subgroup size SIMD are the
\* consecutive runs of SIMD work-items
SubGroupId(l, id) == id \div l.SIMD

SubGroupLocalId(l, id) == id % l.SIMD

\* group_reduce: int idx = sg_id - (lid_row * sub_group_num)
ScratchIdx(l, id) == SubGroupId(l, id) - LidRow(l, id) * l.sub_group_num

\* group_reduce: the elements <<row, column>> of local_data a work-item
\* accesses; none when sub_group_num == 1, and the kernels call
\* group_reduce only if (local_size > 1)
ScratchAccesses(l, id) ==
    LET lid_row == LidRow(l, id)
        idx == ScratchIdx(l, id)
        sg_local_id == SubGroupLocalId(l, id)
    IN IF l.local_size <= 1 \/ l.sub_group_num = 1 THEN {}
       ELSE (IF sg_local_id = 0 THEN {<<lid_row, idx>>} ELSE {})
            \cup (IF idx = 0
                  THEN {<<lid_row, i>> :
                           i \in {x \in 0 .. l.sub_group_num - 1 :
                                     x % l.SIMD = sg_local_id}}
                       \cup (IF sg_local_id = 0 THEN {<<lid_row, 0>>} ELSE {})
                  ELSE {})
            \cup {<<lid_row, 0>>}

\* the launches of the call whose kernels reduce with group_reduce
GroupReduceLaunches ==
    {l \in KernelLaunches : l.strategy = "register" /\ l.local_size > 1}

\* C27: in group_reduce every scratch access is inside the buffer of
\* [local_size_row][sub_group_num] elements: idx = subgroup id - lid_row *
\* sub_group_num is in [0, sub_group_num), and no subgroup holds work-items
\* of two rows, for every packing get_wgroup_size chooses
C27_ScratchAccessesInsideTheBuffer ==
    disp.site /= "none" =>
       \A l \in GroupReduceLaunches :
          \A id \in LocalIds(l) :
             /\ ScratchIdx(l, id) \in 0 .. l.sub_group_num - 1
             /\ LidRow(l, id) = LidRow(l, SubGroupId(l, id) * l.SIMD)
             /\ \A c \in ScratchAccesses(l, id) :
                   /\ c[1] \in 0 .. l.local_size_row - 1
                   /\ c[2] \in 0 .. l.sub_group_num - 1

\* C27 witness: a launch that packs two rows of several subgroups each into
\* one group, where the last work-item writes the last element of the
\* second row of the buffer
C27_Witness ==
    /\ disp.site /= "none"
    /\ \E l \in GroupReduceLaunches :
          /\ l.local_size_row = 2
          /\ l.sub_group_num >= 3
          /\ <<1, l.sub_group_num - 1>>
                \in ScratchAccesses(l, l.local_size_row * l.local_size - l.SIMD)

\* ------------------------------------------------------------------------
\* Global memory.  A launched kernel's groups run in any order; each access
\* of a work-item to the input and output buffers is recorded with its
\* offset from the buffer's first element.  Of a launch with many groups the
\* first groups and the last one run.
\* ------------------------------------------------------------------------
\* the longest row of the streaming kernels
MaxGmDim == 12

\* the widest vector of the streaming kernels
MaxGmVec == 4

\* the reduced extents of the spatial kernels
MaxGmSpatialDim == 3

GmDTypes == {"float", "double"}

\* rows of one work-item, of part of a subgroup, of one and of several
\* subgroups, for both subgroup widths
GmRegisterDims == {1, 4, 8, 16, 33, 64, 120, 130}

\* fewer rows than a group has row slots, rows for three groups with
\* unused slots in the last, and enough rows to pack two into a group
GmOuterSizes == {3, 40, 4 * MIN_WG_NUM}

\* small batches, whose groups get a row-worker for every row, and a large
\* one, whose row-workers take several rows each
GmSpatialOuterSizes == {1, 2, 512}

\* inner extents below, at and above one group of columns, with and
\* without a partly filled last group
GmInnerSizes == {2, 33, 64, 72, 132}

\* an access: the element's offset, the group and the work-item
\* <<row, column>> that made it, its position n in the work-item's loop
Access(off, grp, id, n, how) == [off |-> off, grp |-> grp, id |-> id, n |-> n, how |-> how]

\* the launched kernel: its template parameters, extents and ranges
GmKernel(l, backward, dim_size, inner_size, outer_size, groups0, group_num, in_start) ==
    [kind |-> l.strategy, kernel |-> l.kernel, backward |-> backward,
     vec_size |-> l.vec_size, SIMD |-> l.SIMD, outer_loop |-> l.outer_loop,
     local_size |-> l.local_size, local_size_row |-> l.local_size_row,
     dim_size |-> dim_size, inner_size |-> inner_size, outer_size |-> outer_size,
     groups0 |-> groups0, group_num |-> group_num, in_start |-> in_start]

\* the number of elements of the input and of the output buffer
GmNumel(k) == k.outer_size * k.dim_size * k.inner_size

\* ---- DispatchSoftmaxForwardKernelFunctor, ...BackwardKernelFunctor ----
\* lid_row and lid_col of the work-item with local id id; the forward
\* kernels split the id only if (local_size_row != 1)
GmLidRow(k, id) == IF k.backward THEN id \div k.local_size ELSE LidRow(k, id)

GmLidCol(k, id) ==
    IF k.backward \/ k.local_size_row /= 1 THEN id % k.local_size ELSE id

\* group_offset = (item_id.get_group(0) * local_size_row + lid_row) * dim_size
RegisterGroupOffset(k, g, id) == (g * k.local_size_row + GmLidRow(k, id)) * k.dim_size

RegisterReturns_Never(k, g, id) == FALSE
\* if (local_size == 1 && item_id.get_global_id(0) >= outer_size) return;
RegisterReturns(k, g, id) ==
    k.local_size = 1 /\ g * (k.local_size_row * k.local_size) + id >= k.outer_size

\* the vector accesses of the loops for (i = 0; i < outer_loop; ++i)
\* { index = ...; if (index >= dim_size) break; ... } of a work-item
RegisterItemAccesses(k, g, id) ==
    IF RegisterReturns(k, g, id) THEN {}
    ELSE {Access(RegisterGroupOffset(k, g, id) + LoadIndex(k, i, GmLidCol(k, id)) + j,
                 <<g, 0>>, <<GmLidRow(k, id), GmLidCol(k, id)>>,
                 i * k.vec_size + j, "vector") :
             i \in {x \in 0 .. k.outer_loop - 1 :
                       \A y \in 0 .. x : LoadIndex(k, y, GmLidCol(k, id)) < k.dim_size},
             j \in 0 .. k.vec_size - 1}

RegisterAccesses(k, g) == UNION {RegisterItemAccesses(k, g, id) : id \in LocalIds(k)}

\* ---- SoftmaxForwardKernelFunctor, SoftmaxBackwardKernelFunctor ----
\* start = ((uint64_t)(in_data + group_offset)) % align_bytes / sizeof(scalar_t)
StreamingStart(k, g) == (k.in_start + g * k.dim_size) % k.vec_size

\* loops_end = (dim_size + start + vec_size - 1) / vec_size
StreamingLoopsEnd(k, g) == (k.dim_size + StreamingStart(k, g) + k.vec_size - 1) \div k.vec_size

\* for (i = local_id; i < loops_end; i += local_size)
StreamingIters(k, g, id) == {i \in 0 .. StreamingLoopsEnd(k, g) - 1 : i % k.local_size = id}

\* if (linear_idx >= 0 && linear_idx < dim_size) for linear_idx = v: the
\* forward kernel holds it in the unsigned IndexType, where a negative v is
\* a value above every int and the first test is always true; the backward
\* kernel holds it signed
InRow(k, v) == IF k.backward THEN v >= 0 /\ v < k.dim_size
               ELSE IF v < 0 THEN FALSE ELSE v < k.dim_size

\* (start > 0 && i == 0) || (remaining < vec_size) for remaining =
\* dim_size + start - i * vec_size, unsigned in the forward kernel
HeadOrTail_OnlyHead(k, g, i) == StreamingStart(k, g) > 0 /\ i = 0
HeadOrTail(k, g, i) ==
    LET remaining == k.dim_size + StreamingStart(k, g) - i * k.vec_size
    IN \/ StreamingStart(k, g) > 0 /\ i = 0
       \/ IF ~k.backward /\ remaining < 0 THEN FALSE ELSE remaining < k.vec_size

\* the elements a work-item adds to the maximum and to the sum
StreamingFolds(k, g, id) ==
    UNION {{Access(g * k.dim_size + (i * k.vec_size + j - StreamingStart(k, g)),
                   <<g, 0>>, <<0, id>>, i * k.vec_size + j, "fold") :
               j \in {x \in 0 .. k.vec_size - 1 :
                         InRow(k, i * k.vec_size + x - StreamingStart(k, g))}} :
             i \in StreamingIters(k, g, id)}

\* the update loop of a work-item: head and tail element by element under
\* the test of the row, the other vectors whole
StreamingWrites(k, g, id) ==
    UNION {{Access(g * k.dim_size - StreamingStart(k, g) + i * k.vec_size + j,
                   <<g, 0>>, <<0, id>>, i * k.vec_size + j,
                   IF HeadOrTail(k, g, i) THEN "element" ELSE "vector") :
               j \in {x \in 0 .. k.vec_size - 1 :
                         HeadOrTail(k, g, i)
                            => InRow(k, i * k.vec_size + x - StreamingStart(k, g))}} :
             i \in StreamingIters(k, g, id)}

\* ---- SpatialSoftmaxForwardKernelFunctor, ...BackwardKernelFunctor ----
\* global_col = item_id.get_global_id(2)
GlobalCol(k, cg, c) == cg * k.local_size + c

\* offset = i * inner_size + global_col * vec_size, from group_offset =
\* item_id.get_global_id(0) * dim_size * inner_size
SpatialOffset(k, o, i, global_col) ==
    o * k.dim_size * k.inner_size + i * k.inner_size + global_col * k.vec_size

\* the rows of a row-worker: for (i = local_row_id; i < dim_size; i += block_row)
SpatialRowsOf(k, r) ==
    {i \in 0 .. k.dim_size - 1 : i >= r /\ (i - r) % k.local_size_row = 0}

\* the vector loads of the reduction loops: the forward kernel loads row
\* local_row_id before its loop; none of the loads is under a test of
\* global_col
SpatialReads(k, o, cg, r, c) ==
    {Access(SpatialOffset(k, o, i, GlobalCol(k, cg, c)) + j, <<o, cg>>, <<r, c>>,
            i * k.vec_size + j, "vector") :
        i \in (IF k.backward THEN {} ELSE {r}) \cup SpatialRowsOf(k, r),
        j \in 0 .. k.vec_size - 1}

\* the update loop: if (global_col * vec_size < inner_size)
SpatialWrites_NoColumnTest(k, o, cg, r, c) == SpatialReads(k, o, cg, r, c)
SpatialWrites(k, o, cg, r, c) ==
    IF GlobalCol(k, cg, c) * k.vec_size < k.inner_size
    THEN {Access(SpatialOffset(k, o, i, GlobalCol(k, cg, c)) + j, <<o, cg>>, <<r, c>>,
                 i * k.vec_size + j, "vector") :
             i \in SpatialRowsOf(k, r), j \in 0 .. k.vec_size - 1}
    ELSE {}

\* ---- the accesses of one group ----
GroupReads(k, g) ==
    IF k.kind = "register" THEN RegisterAccesses(k, g[1])
    ELSE IF k.kind = "streaming"
    THEN UNION {StreamingFolds(k, g[1], id) : id \in 0 .. k.local_size - 1}
    ELSE UNION {SpatialReads(k, g[1], g[2], r, c) :
                   r \in 0 .. k.local_size_row - 1, c \in 0 .. k.local_size - 1}

GroupWrites(k, g) ==
    IF k.kind = "register" THEN RegisterAccesses(k, g[1])
    ELSE IF k.kind = "streaming"
    THEN UNION {StreamingWrites(k, g[1], id) : id \in 0 .. k.local_size - 1}
    ELSE UNION {SpatialWrites(k, g[1], g[2], r, c) :
                   r \in 0 .. k.local_size_row - 1, c \in 0 .. k.local_size - 1}

\* the groups of the launch that run: the first two and the last along the
\* rows, the first and the last along the columns
GmGroups(k) ==
    {<<a, b>> : a \in {0, 1, k.groups0 - 1} \cap (0 .. k.groups0 - 1),
               b \in {0, k.group_num - 1}}

\* a load past the last element of the buffer is undefined: it returns some
\* value, or the device faults and the kernel is aborted
Outcomes(k, g) ==
    IF \E e \in GroupReads(k, g) : e.off >= GmNumel(k)
    THEN {"returns", "faults"} ELSE {"returns"}

Launched(k) ==
    /\ gm' = [kind |-> k.kind, k |-> k, ran |-> {}, aborted |-> FALSE,
              reads |-> {}, writes |-> {}]
    /\ UNCHANGED <<mmVars, smVars, prVars, dsVars, wgVars, fused, device>>

\* the launch SpatialSoftMaxForward or SpatialSoftMaxBackward makes for an
\* innermost axis that fits one group: dispatch_softmax_forward_kernel,
\* dispatch_softmax_backward_kernel
Launch_gm_register ==
    /\ gm.kind = "none"
    /\ \E backward \in BOOLEAN, dtype \in GmDTypes, dim_size \in GmRegisterDims,
          outer_size \in GmOuterSizes, st \in {0, 1}, dev_simd \in {SIMD16, SIMD32} :
         \E l \in {IF backward
                   THEN BackwardLaunch(dtype, 1, dim_size, outer_size, TRUE,
                                       st, st, st, dev_simd)
                   ELSE ForwardLaunch(dtype, 1, dim_size, outer_size, TRUE,
                                      st, st, dev_simd)} :
            /\ l.strategy = "register"
            /\ Launched(GmKernel(l, backward, dim_size, 1, outer_size,
                                 get_wgroup_size(l.SIMD, l.vec_size, l.outer_loop,
                                                 dim_size, outer_size).global_size_row,
                                 1, st))

\* softmax_forward_kernel, softmax_backward_kernel: one group per row,
\* sycl::range<1> global_range{local_size * outer_size}
Launch_gm_streaming ==
    /\ gm.kind = "none"
    /\ \E backward \in BOOLEAN, vec_size \in {1, 2, MaxGmVec},
          dim_size \in 1 .. MaxGmDim, outer_size \in {1, 3} :
         \E in_start \in 0 .. vec_size - 1 :
            \E l \in {StreamingLaunch(IF backward THEN "softmax_backward_kernel"
                                      ELSE "softmax_forward_kernel",
                                      vec_size, dim_size)} :
               Launched(GmKernel(l, backward, dim_size, 1, outer_size,
                                 outer_size, 1, in_start))

\* the launch for an inner axis: spatial_softmax_forward,
\* spatial_softmax_backward_kernel; sycl::range<3> global_range{outer_size,
\* block_row, group_num * local_size}
Launch_gm_spatial ==
    /\ gm.kind = "none"
    /\ \E backward \in BOOLEAN, dtype \in GmDTypes, dim_size \in 1 .. MaxGmSpatialDim,
          inner_size \in GmInnerSizes, outer_size \in GmSpatialOuterSizes, st \in {0, 1} :
         \E l \in {IF backward
                   THEN BackwardLaunch(dtype, inner_size, dim_size, outer_size, TRUE,
                                       st, st, st, SIMD32)
                   ELSE ForwardLaunch(dtype, inner_size, dim_size, outer_size, TRUE,
                                      st, st, SIMD32)} :
            Launched(GmKernel(l, backward, dim_size, inner_size, outer_size,
                              outer_size,
                              CeilDiv(inner_size, l.local_size * l.vec_size), st))

\* one group of the launched kernel runs
RunGroup ==
    /\ gm.kind /= "none"
    /\ ~gm.aborted
    /\ \E g \in GmGroups(gm.k) \ gm.ran :
         \E outcome \in Outcomes(gm.k, g) :
            gm' = [gm EXCEPT
                      !.ran = @ \cup {g},
                      !.aborted = outcome = "faults",
                      !.reads = @ \cup GroupReads(gm.k, g),
                      !.writes = IF outcome = "faults" THEN @
                                 ELSE @ \cup GroupWrites(gm.k, g)]
    /\ UNCHANGED <<mmVars, smVars, prVars, dsVars, wgVars, fused, device>>

NextGlobal ==
    \/ Launch_gm_register
    \/ Launch_gm_streaming
    \/ Launch_gm_spatial
    \/ RunGroup

SpecGlobal == InitMinMax /\ [][NextGlobal]_vars

\* ------------------------------------------------------------------------
\* Claims about global memory
\* ------------------------------------------------------------------------
\* the offsets a set of accesses touches; every offset is touched by one
\* access
Offsets(W) == {e.off : e \in W}

ExactlyOnce(W) == Cardinality(Offsets(W)) = Cardinality(W)

WritesOf(g) == {e \in gm.writes : e.grp = g}

ReadsOf(g) == {e \in gm.reads : e.grp = g}

\* the offsets of the elements of row r of a buffer of rows
RowElements(k, r) == {r * k.dim_size + p : p \in 0 .. k.dim_size - 1}

\* the rows of the row slots of group g that are rows of the buffer
RegisterRowsOf(k, g) ==
    {r \in g * k.local_size_row .. g * k.local_size_row + k.local_size_row - 1 :
        r < k.outer_size}

\* C21: the register-resident kernels write every output element exactly
\* once: the row slots of the groups cover the rows (global_size_row *
\* local_size_row == outer_size when rows are packed; with one work-item
\* per row the work-items past outer_size write nothing), every row is
\* written by the one row slot <<group, lid_row>> it belongs to, and within
\* a row the work-items' elements are disjoint and cover [0, dim_size)
C21_RegisterWritesEveryElementOnce ==
    gm.kind = "register" =>
       /\ ExactlyOnce(gm.writes)
       /\ gm.k.groups0 * gm.k.local_size_row >= gm.k.outer_size
       /\ gm.k.local_size > 1 => gm.k.groups0 * gm.k.local_size_row = gm.k.outer_size
       /\ \A g \in gm.ran :
             Offsets(WritesOf(g))
                = UNION {RowElements(gm.k, r) : r \in RegisterRowsOf(gm.k, g[1])}
       /\ \A e \in gm.writes :
             e.off \div gm.k.dim_size = e.grp[1] * gm.k.local_size_row + e.id[1]

\* C21 witness: the first two groups and the last of a launch that packs
\* two rows of several work-items each into a group have run
C21_Witness ==
    /\ gm.kind = "register"
    /\ gm.k.local_size_row = 2
    /\ gm.k.local_size > 1
    /\ gm.k.dim_size > gm.k.vec_size
    /\ gm.ran = GmGroups(gm.k)
    /\ Cardinality(gm.ran) = 3
    /\ Cardinality(gm.writes) = 6 * gm.k.dim_size

\* C22: the streaming kernels write every element of a row exactly once
\* and nothing outside the row, whatever dim_size and the misalignment
\* start of the row; only elements of the row enter the maximum and the
\* sum; the vectors that reach over an end of the row are written element
\* by element, all others whole
C22_StreamingWritesEveryRowElementOnce ==
    gm.kind = "streaming" =>
       /\ ExactlyOnce(gm.writes)
       /\ ExactlyOnce(gm.reads)
       /\ \A g \in gm.ran :
             /\ Offsets(WritesOf(g)) = RowElements(gm.k, g[1])
             /\ Offsets(ReadsOf(g)) = RowElements(gm.k, g[1])
       /\ \A e \in gm.writes :
             LET first == e.off - (e.n % gm.k.vec_size)
                 row == e.grp[1] * gm.k.dim_size
             IN (e.how = "element")
                   <=> (first < row \/ first + gm.k.vec_size > row + gm.k.dim_size)

\* C22 witness: a row that starts and ends inside a vector and holds whole
\* vectors between them has been written
C22_Witness ==
    /\ gm.kind = "streaming"
    /\ gm.k.vec_size = MaxGmVec
    /\ \E g \in gm.ran :
          /\ StreamingStart(gm.k, g[1]) > 0
          /\ (gm.k.dim_size + StreamingStart(gm.k, g[1])) % gm.k.vec_size /= 0
          /\ \E e \in WritesOf(g) : e.how = "vector"
          /\ \E e \in WritesOf(g) : e.how = "element" /\ e.off = g[1] * gm.k.dim_size
          /\ \E e \in WritesOf(g) :
                e.how = "element" /\ e.off = g[1] * gm.k.dim_size + gm.k.dim_size - 1

\* the inner offsets of the columns of column group cg
SpatialColumnsOf(k, cg) ==
    {c \in cg * k.local_size * k.vec_size .. (cg + 1) * k.local_size * k.vec_size - 1 :
        c < k.inner_size}

\* C23: the spatial kernels write every output element (outer, i, inner)
\* exactly once, by the row-worker with i mod block_row == its row id in
\* the group that owns the inner offset, also when inner_size is not a
\* multiple of local_size * vec_size
C23_SpatialWritesEveryElementOnce ==
    gm.kind = "spatial" =>
       /\ ExactlyOnce(gm.writes)
       /\ gm.k.group_num * gm.k.local_size * gm.k.vec_size >= gm.k.inner_size
       /\ \A g \in gm.ran :
             Offsets(WritesOf(g))
                = {SpatialOffset(gm.k, g[1], i, 0) + c :
                      i \in 0 .. gm.k.dim_size - 1, c \in SpatialColumnsOf(gm.k, g[2])}
       /\ \A e \in gm.writes :
             ((e.off \div gm.k.inner_size) % gm.k.dim_size) % gm.k.local_size_row
                = e.id[1]

\* C28: every load of the spatial kernels from global memory is inside the
\* buffer and inside the outer slice of the work-item: its column starts
\* below inner_size and its vector ends inside the row, also when
\* inner_size is not a multiple of local_size * vec_size
C28_SpatialReadsInsideOwnSlice ==
    gm.kind = "spatial" =>
       \A e \in gm.reads :
          /\ GlobalCol(gm.k, e.grp[2], e.id[2]) * gm.k.vec_size < gm.k.inner_size
          /\ e.off >= SpatialOffset(gm.k, e.grp[1], 0, 0)
          /\ e.off < SpatialOffset(gm.k, e.grp[1] + 1, 0, 0)
          /\ e.off < GmNumel(gm.k)

\* ------------------------------------------------------------------------
\* The shape test of the fused add entry points
\* ------------------------------------------------------------------------
\* the ranks and extents of the shapes the test is called with
MaxFusedRank == 3

MaxFusedExtent == 4

\* shape_use_fused_path(input, other) called with two shapes
Call_shape_use_fused_path ==
    /\ fused.result = "none"
    /\ \E a_dim \in 0 .. MaxFusedRank, b_dim \in 0 .. MaxFusedRank :
         \E input_size \in [1 .. a_dim -> 0 .. MaxFusedExtent],
            other_size \in [1 .. b_dim -> 0 .. MaxFusedExtent] :
            fused' = [input |-> input_size, other |-> other_size,
                      result |-> shape_use_fused_path([sizes |-> input_size],
                                                      [sizes |-> other_size])]
    /\ UNCHANGED <<mmVars, smVars, prVars, dsVars, wgVars, gm, device>>

NextFusedShape == Call_shape_use_fused_path

SpecFusedShape == InitMinMax /\ [][NextFusedShape]_vars

\* n is evenly divisible by d
EvenlyDivisible(n, d) == \E q \in 0 .. n : n = q * d

\* the condition as the description states it: equal shapes, or other of no
\* higher rank whose every dimension divides the dimension of input aligned
\* with it from the end
StatedFusedCondition(input_size, other_size) ==
    \/ input_size = other_size
    \/ /\ Len(other_size) <= Len(input_size)
       /\ \A i \in 1 .. Len(other_size) :
             EvenlyDivisible(input_size[Len(input_size) - i + 1],
                             other_size[Len(other_size) - i + 1])

\* C24: shape_use_fused_path returns true exactly when the shapes are equal
\* or other has no higher rank and each of its dimensions evenly divides the
\* aligned dimension of input, and false otherwise, in particular when other
\* has the higher rank and the shapes differ
C24_FusedPathExactlyWhenDivisible ==
    fused.result /= "none" =>
       /\ fused.result = IF StatedFusedCondition(fused.input, fused.other)
                         THEN "true" ELSE "false"
       /\ (Len(fused.other) > Len(fused.input) /\ fused.input /= fused.other)
             => fused.result = "false"

\* C30: whenever shape_use_fused_path returns true other broadcasts to
\* exactly input's shape, each dimension of other being 1 or input's, and
\* the test never takes a remainder by a zero-sized dimension
C30_FusedPathImpliesBroadcast ==
    fused.result /= "none" =>
       /\ fused.result /= "undefined"
       /\ fused.result = "true" => ExpandableTo(fused.other, fused.input)

\* ------------------------------------------------------------------------
\* Claims about inputs without elements
\* ------------------------------------------------------------------------
\* the tensor whose element count the entry point called goes by
CallOperand == IF "input" \in DOMAIN call THEN call.input ELSE call.output

\* C29: for an input with zero elements every softmax-family entry point
\* returns without launching a kernel and without dividing by zero when it
\* computes outer_size = numel / (inner_size * dim_size)
C29_ZeroElementsNeitherLaunchNorDivide ==
    (call.entry /= "none" /\ Numel(CallOperand.sizes) = 0) =>
       /\ result.status /= "undefined"
       /\ \A n \in 1 .. Len(result.launches) : ~result.launches[n].core

====
